---- MODULE Spec2Model ----
(***************************************************************************)
(* The retrying Gemini calls of src/services/geminiService.ts:             *)
(* analyzeVideoWithFrames, generateWorkoutPlan and generateExerciseVideo   *)
(* (start call with bounded retry, then the polling loop).                  *)
(*                                                                         *)
(* An async function runs atomically between two awaits, so there is one   *)
(* action per resumption: the call (Invoke), the settlement of the awaited *)
(* network call (AttemptSucceeds, AttemptFails, PollReturns, PollFails)    *)
(* and the firing of an awaited timer (BackoffEnds, PollWaitEnds).         *)
(*                                                                         *)
(* A JavaScript string is a sequence of fragments (pieces of text);        *)
(* concatenation is \o, String.includes is a search for a contiguous run   *)
(* of fragments and toLowerCase lower-cases every fragment.  The fragments *)
(* are cut so that every marker the code searches for is one fragment.     *)
(*                                                                         *)
(* On top of these calls: the GymAnalyzer component, in the two copies the *)
(* repository holds (src/components/GymAnalyzer.tsx, src/unnamed/part_004),*)
(* with the video cache of src/database/videoCache.ts.  The component      *)
(* state is the record gym; an event handler runs atomically up to its     *)
(* next await, and a handler that awaits one of the three calls owns the   *)
(* invocation of its slot.  Not modelled: the progress bar and the ETA     *)
(* timers, toasts, the text of the loading indicator, the expanded day.    *)
(***************************************************************************)
EXTENDS Integers, Sequences, FiniteSets, TLC

VARIABLES invocation, gym, cache, chat

vars == <<invocation, gym, cache, chat>>

\* ---------------------------------------------------------------- bounds

\* The invocations of one behaviour.
Invocations == {1}

\* Frames passed to analyzeVideoWithFrames: at most this many.
MaxFrames == 2

\* Status polls that may report "not done" before the job has to finish.
MaxPolls == 4

\* The same, where two invocations run side by side.
MaxPairPolls == 1

\* Clicks on the buttons of GymAnalyzer that call a handler, in one session.
MaxClicks == 3

\* Calls of cacheVideo made on the module videoCache.ts.
MaxWrites == 3

\* The clicks on Send and Try Again in a session of the chat, and the chunks
\* of one response stream.
MaxChatClicks == 3

MaxChunks == 2

\* ---------------------------------------------------------------- strings

\* String.prototype.toLowerCase on one fragment.
LowerFragment(f) ==
    CASE f = "Unavailable" -> "unavailable"
      [] f = "UNAVAILABLE" -> "unavailable"
      [] f = "Overloaded" -> "overloaded"
      [] f = "API key not valid" -> "api key not valid"
      [] f = "Requested entity was not found." -> "requested entity was not found."
      [] f = " Service " -> " service "
      [] f = "The model is " -> "the model is "
      [] f = ". Please try again later." -> ". please try again later."
      [] f = ". Please pass a valid API key." -> ". please pass a valid api key."
      [] f = "Unexpected token" -> "unexpected token"
      [] f = "Push-ups" -> "push-ups"
      [] f = "Dumbbell Bicep Curl" -> "dumbbell bicep curl"
      [] f = "Squats" -> "squats"
      [] f = "Plank" -> "plank"
      [] f = "Lunge" -> "lunge"
      [] f = "LUNGE" -> "lunge"
      [] f = "Row" -> "row"
      [] f = "Could not " -> "could not "
      [] f = "Video decoding failed" -> "video decoding failed"
      [] OTHER -> f

toLowerCase(s) == [k \in 1..Len(s) |-> LowerFragment(s[k])]

\* s.includes(t)
includes(s, t) ==
    \E k \in 0..(Len(s) - Len(t)) : SubSeq(s, k + 1, k + Len(t)) = t

\* String.prototype.trim: the white-space fragments at both ends are dropped.
RECURSIVE trimStart(_)
trimStart(s) == IF s # <<>> /\ s[1] = " " THEN trimStart(Tail(s)) ELSE s

RECURSIVE trimEnd(_)
trimEnd(s) ==
    IF s # <<>> /\ s[Len(s)] = " " THEN trimEnd(SubSeq(s, 1, Len(s) - 1)) ELSE s

trim(s) == trimEnd(trimStart(s))

\* null, and the truthiness of a string or null.
Null == <<"null">>

Truthy(v) == v # Null /\ v # <<>>

\* ---------------------------------------------------------------- inputs

\* Messages of the failures the backend (or the SDK) produces.  For a thrown
\* value that is no Error the text is String(e) (geminiService.ts:54).
MsgOverloaded == <<"The model is ", "overloaded", ". Please try again later.">>
MsgServiceUnavailable == <<"503", " Service ", "Unavailable">>
MsgStatusUnavailable == <<"UNAVAILABLE">>
MsgBareOverloaded == <<"overloaded">>
MsgKeyInvalid == <<"API key not valid", ". Please pass a valid API key.">>
MsgKeyInvalid503 == <<"503", " ", "API key not valid">>
MsgEntity == <<"Requested entity was not found.">>
MsgEntityUnavailable == <<"Requested entity was not found.", " Service ", "Unavailable">>
MsgMalformed == <<"malformed request">>

Messages ==
    { MsgOverloaded, MsgServiceUnavailable, MsgStatusUnavailable, MsgBareOverloaded,
      MsgKeyInvalid, MsgKeyInvalid503, MsgEntity, MsgEntityUnavailable, MsgMalformed }

\* A data-URL frame after frameData.split(','): with a payload, without a
\* comma, with an empty payload.
FrameOk == <<"data:image/jpeg;base64", "/9j/4AAQ">>
FrameNoComma == <<"/9j/4AAQ">>
FrameEmptyPayload == <<"data:image/jpeg;base64", "">>

FrameStrings == {FrameOk, FrameNoComma, FrameEmptyPayload}

FrameLists == UNION {[1..n -> FrameStrings] : n \in 0..MaxFrames}

\* response.text of generateContent: a Markdown analysis, two JSON documents.
ResponseTexts ==
    { "### Equipment Identified",
      "### Equipment Identified\n- hex dumbbells\n- flat bench\n### Potential Exercises",
      "[]",
      "[{day:Day 1,exercises:[]}]",
      "[{day:Day 1,exercises:[{name:plank},{name:Lunge}]}]",
      "[{day:Day 1,exercises:[{name:Lunge}]},{day:Day 2,exercises:[{name:lunge}]}]" }

\* process.env.API_KEY: unset (falsy) or set.
ApiKeys == {"", "AIza-key"}

\* The operation object generateVideos / getVideosOperation resolves to:
\* not done, done with a video uri, done without one.
OperationPending == [started |-> TRUE, done |-> FALSE, uri |-> ""]
OperationDone == [started |-> TRUE, done |-> TRUE, uri |-> "https://video/1"]
OperationDoneNoVideo == [started |-> TRUE, done |-> TRUE, uri |-> ""]

\* Another job, done with its own video uri.
OtherOperationDone == [started |-> TRUE, done |-> TRUE, uri |-> "https://video/2"]

VideoOperations == {OperationPending, OperationDone, OtherOperationDone, OperationDoneNoVideo}

Operations == {"analyzeVideoWithFrames", "generateWorkoutPlan", "generateExerciseVideo"}

\* ---------------------------------------------------------------- state

\* `let operation;` before the start call.
NoOperation == [started |-> FALSE, done |-> FALSE, uri |-> ""]

\* `let lastError: Error | null = null;`
NoError == [isSet |-> FALSE, message |-> <<>>]

Err(msg) == [isSet |-> TRUE, message |-> msg]

Pending == [status |-> "pending", kind |-> "none", message |-> <<>>, value |-> <<>>]

\* One observable step of an invocation, appended to its log in program order.
\*   call    network attempt `attempt` is issued      fail   it rejected with msg
\*   ok      it resolved                              notify onProgress(attempt, arg)
\*   sleep   a backoff timer of arg ms is started     wait   the 10 s poll timer
\*   poll    getVideosOperation is issued             pollfail  it rejected with
\*   pollok  it resolved (arg = 1: done)                        msg (arg = 1: an Error)
Ev(type, attempt, arg, msg) ==
    [type |-> type, attempt |-> attempt, arg |-> arg, msg |-> msg]

Idle ==
    [op |-> "none", pc |-> "idle", attempt |-> 0, lastError |-> NoError,
     onProgress |-> FALSE, apiKey |-> "", frames |-> <<>>,
     operation |-> NoOperation, polls |-> 0,
     log |-> <<>>, outcome |-> Pending]

\* The copies of the GymAnalyzer component in the repository.
Copies == {"GymAnalyzer.tsx", "part_004"}

\* The calls of async event handlers of the component that are under way.
Handlers == {1, 2}

\* The calls of fetchModelResponse of FitnessChat that can be under way.
Fetches == {1, 2}

\* const videoDatabase: VideoCache = { ... }: the keys in insertion order.
videoDatabase ==
    << [key |-> <<"Push-ups">>, url |-> <<"https://storage.googleapis.com/gtv-videos-bucket/sample/ForBiggerFun.mp4">>],
       [key |-> <<"Dumbbell Bicep Curl">>, url |-> <<"https://storage.googleapis.com/gtv-videos-bucket/sample/ForBiggerJoyrides.mp4">>],
       [key |-> <<"Squats">>, url |-> <<"https://storage.googleapis.com/gtv-videos-bucket/sample/ForBiggerMeltdowns.mp4">>],
       [key |-> <<"Plank">>, url |-> <<"https://storage.googleapis.com/gtv-videos-bucket/sample/SubaruOutbackOnStreetAndDirt.mp4">>] >>

\* useState<WorkoutPlan | null>(null) and useState<string[] | null>(null): an
\* empty array is not null.
NoPlan == [isSet |-> FALSE, days |-> <<>>]

NoFrames == [isSet |-> FALSE, frames |-> <<>>]

\* A handler slot with no call under way.  A call keeps what it closed over
\* and reads after an await; it goes on after the component that made it was
\* unmounted.
NoHandler ==
    [kind |-> "none", pc |-> "none", exercise |-> <<>>, apiKeySelected |-> FALSE,
     equipmentList |-> "", isRegeneration |-> FALSE, refinementPrompt |-> <<>>,
     retried |-> FALSE, videoFile |-> "", unmounted |-> FALSE]

\* lastFailedAction: null, or the function a catch block stored with what its
\* closure holds.
NoAction ==
    [kind |-> "none", equipmentList |-> "", isRegeneration |-> FALSE,
     refinementPrompt |-> <<>>]

\* The component after its first render: the useState initial values, the
\* checkApiKey effect started (it awaits hasSelectedApiKey when window.aistudio
\* exists), the video cache as the module videoCache.ts creates it.
Mounted(copy, aistudio) ==
    [copy |-> copy, aistudio |-> aistudio, checkApiKey |-> aistudio,
     videoFile |-> "", loadingActive |-> FALSE, analysis |-> <<>>, error |-> <<>>,
     workoutPlan |-> NoPlan, equipmentList |-> "", isGeneratingVideo |-> <<>>,
     generatedVideos |-> {}, apiKeySelected |-> FALSE, lastFailedAction |-> NoAction,
     extractedFrames |-> NoFrames, isRefining |-> FALSE, refinementPrompt |-> <<>>,
     clicks |-> 0, ignoredUpdate |-> FALSE,
     handlers |-> [h \in Handlers |-> NoHandler]]

\* The module videoCache.ts when it is loaded: its object, and the calls of
\* cacheVideo made so far.
InitialCache == [videoDatabase |-> videoDatabase, writes |-> <<>>]

\* No call of fetchModelResponse in this slot.
NoFetch == [pc |-> "none", modelResponse |-> <<>>, currentHistory |-> <<>>, chunks |-> 0]

\* FitnessChat after its first render.
ChatMounted ==
    [history |-> <<>>, userInput |-> <<>>, isLoading |-> FALSE, error |-> <<>>,
     fetch |-> [f \in Fetches |-> NoFetch], clicks |-> 0]

Init ==
    /\ invocation = [i \in Invocations |-> Idle]
    /\ gym = Mounted("GymAnalyzer.tsx", TRUE)
    /\ cache = InitialCache
    /\ chat = ChatMounted

\* ---------------------------------------------------------------- helpers

MAX_RETRIES == 3

\* Mutant of BackoffDelay: the exponent counts the retries from zero.
BackoffDelay_FromZero(attempt) == (2 ^ (attempt - 1)) * 1000

\* const delay = Math.pow(2, attempt) * 1000;
BackoffDelay(attempt) == (2 ^ attempt) * 1000

\* setTimeout(resolve, 10000) of the polling loop.
POLL_INTERVAL == 10000

\* Mutant of IsOverloadMessage: the "unavailable" test is missing.
IsOverloadMessage_NoUnavailable(errorMessage) ==
    \/ includes(errorMessage, <<"503">>)
    \/ includes(errorMessage, <<"overloaded">>)

\* errorMessage.includes("503") || errorMessage.includes("overloaded")
\*   || errorMessage.includes("unavailable")
IsOverloadMessage(errorMessage) ==
    \/ includes(errorMessage, <<"503">>)
    \/ includes(errorMessage, <<"overloaded">>)
    \/ includes(errorMessage, <<"unavailable">>)

\* errorMessage.includes("api key not valid")
IsKeyInvalidMessage(errorMessage) == includes(errorMessage, <<"api key not valid">>)

\* message.includes("Requested entity was not found."), on the message as thrown
\* (not lower-cased).
IsEntityNotFound(message) == includes(message, <<"Requested entity was not found.">>)

\* JSON.parse(response.text): the documents that parse, and their value (the
\* days of the plan, each with the names of its exercises).  Any other text
\* throws a SyntaxError.
IsJson(text) ==
    text \in { "[]", "[{day:Day 1,exercises:[]}]",
               "[{day:Day 1,exercises:[{name:plank},{name:Lunge}]}]",
               "[{day:Day 1,exercises:[{name:Lunge}]},{day:Day 2,exercises:[{name:lunge}]}]" }

JsonParse(text) ==
    CASE text = "[]" -> <<>>
      [] text = "[{day:Day 1,exercises:[]}]" -> <<[day |-> "Day 1", exercises |-> <<>>]>>
      [] text = "[{day:Day 1,exercises:[{name:Lunge}]},{day:Day 2,exercises:[{name:lunge}]}]" ->
             <<[day |-> "Day 1", exercises |-> << <<"Lunge">> >>],
               [day |-> "Day 2", exercises |-> << <<"lunge">> >>]>>
      [] OTHER -> <<[day |-> "Day 1", exercises |-> << <<"plank">>, <<"Lunge">> >>]>>

SyntaxErrorMessage == <<"Unexpected token">>

\* The texts of the errors the three functions throw.
KeyUnsetText == <<"API_KEY environment variable is not set.">>
InvalidFrameText == <<"Invalid frame data format.">>
KeyInvalidText == <<"Your API key is not valid. Please select a new one.">>
KeyNotFoundText == <<"API key not found or invalid. Please select a key.">>
OverloadedText ==
    <<"The AI model is currently ", "overloaded",
      ". We tried several times without success. Please try again in a few moments.">>
VideoOverloadedText ==
    <<"The video generation model is currently ", "overloaded",
      ". We tried several times without success. Please try again in a few moments.">>
AnalysisPrefix == <<"Failed to get analysis from Gemini API: ">>
PlanPrefix == <<"Failed to generate workout plan from Gemini API: ">>
VideoStartPrefix == <<"Failed to start video generation from Gemini API: ">>
VideoPollPrefix == <<"Failed during video generation process: ">>
AnalysisUnknownText ==
    <<"An unknown error occurred while communicating with the Gemini API after all retries.">>
PlanUnknownText ==
    <<"An unknown error occurred while generating the workout plan after all retries.">>
VideoStartUnknownText == <<"An unknown error occurred while starting the video generation.">>
VideoUnknownText == <<"An unknown error occurred while generating the video.">>
NoLinkText == <<"Video generation completed, but no download link was found.">>

\* ---------------------------------------------------------------- steps

Log(r, ev) == [r EXCEPT !.log = Append(@, ev)]

\* throw new Error(message) / throw new ApiKeyError(message): the invocation ends.
Throw(r, kind, message) ==
    [r EXCEPT !.pc = "thrown",
              !.outcome = [status |-> "thrown", kind |-> kind,
                           message |-> message, value |-> <<>>]]

\* return value: the invocation ends.
Return(r, value) ==
    [r EXCEPT !.pc = "returned",
              !.outcome = [status |-> "returned", kind |-> "none",
                           message |-> <<>>, value |-> value]]

\* The awaited request of attempt r.attempt is issued.
IssueCall(r) == [Log(r, Ev("call", r.attempt, 0, <<>>)) EXCEPT !.pc = "attempting"]

\* Mutant of Notify: the observer is given the number of the next attempt.
Notify_NextAttempt(r, attempt, maxAttempts) ==
    IF r.onProgress THEN Log(r, Ev("notify", attempt + 1, maxAttempts, <<>>)) ELSE r

\* onProgress?.(attempt, MAX_RETRIES)
Notify(r, attempt, maxAttempts) ==
    IF r.onProgress THEN Log(r, Ev("notify", attempt, maxAttempts, <<>>)) ELSE r

\* Mutant of Sleep: the timer is started but not awaited, the loop goes on.
Sleep_NotAwaited(r, delay) ==
    IssueCall([Log(r, Ev("sleep", r.attempt, delay, <<>>)) EXCEPT !.attempt = @ + 1])

\* await new Promise(resolve => setTimeout(resolve, delay))
Sleep(r, delay) == [Log(r, Ev("sleep", r.attempt, delay, <<>>)) EXCEPT !.pc = "backoff"]

\* Mutant of Retry: the observer is invoked after the timer was started.
Retry_SleepFirst(r) ==
    LET t == Sleep(r, (2 ^ r.attempt) * 1000)
    IN  IF t.onProgress THEN Log(t, Ev("notify", t.attempt, 3, <<>>)) ELSE t

\* The retry branch shared by the three catch blocks.
Retry(r) == Sleep(Notify(r, r.attempt, MAX_RETRIES), BackoffDelay(r.attempt))

\* Mutant of Caught: the first failure of the invocation is kept.
Caught_KeepFirst(r, msg) ==
    [Log(r, Ev("fail", r.attempt, 0, msg))
        EXCEPT !.lastError = IF @.isSet THEN @ ELSE Err(msg)]

\* lastError = e instanceof Error ? e : new Error(String(e));
Caught(r, msg) ==
    [Log(r, Ev("fail", r.attempt, 0, msg)) EXCEPT !.lastError = Err(msg)]

\* ------------------------------------------------- analyzeVideoWithFrames

\* Mutant of FrameIsValid: only the comma is looked for.
FrameIsValid_CommaOnly(frame) == Len(frame) >= 2

\* const base64Data = frameData.split(',')[1]; if (!base64Data) throw ...
FrameIsValid(frame) == Len(frame) >= 2 /\ frame[2] # ""

\* Mutant of analyzeAfterLoop: the lower-cased message is propagated.
analyzeAfterLoop_LowerCased(r) ==
    IF r.lastError.isSet
    THEN IF IsOverloadMessage(toLowerCase(r.lastError.message))
         THEN Throw(r, "Error", OverloadedText)
         ELSE Throw(r, "Error", AnalysisPrefix \o toLowerCase(r.lastError.message))
    ELSE Throw(r, "Error", AnalysisUnknownText)

\* After the loop: the error thrown for the last failure.
analyzeAfterLoop(r) ==
    IF r.lastError.isSet
    THEN IF IsOverloadMessage(toLowerCase(r.lastError.message))
         THEN Throw(r, "Error", OverloadedText)
         ELSE Throw(r, "Error", AnalysisPrefix \o r.lastError.message)
    ELSE Throw(r, "Error", AnalysisUnknownText)

\* The catch block of the loop.
analyzeCatch(r, msg) ==
    LET c == Caught(r, msg)
        errorMessage == toLowerCase(c.lastError.message)
    IN  IF IsKeyInvalidMessage(errorMessage)
        THEN Throw(c, "ApiKeyError", KeyInvalidText)
        ELSE IF IsOverloadMessage(errorMessage) /\ c.attempt < MAX_RETRIES
             THEN Retry(c)
             ELSE analyzeAfterLoop(c)

\* The call up to its first await: the key check, frames.map, attempt 1.
analyzeInvoke(r, frames) ==
    IF r.apiKey = ""
    THEN Throw(r, "Error", KeyUnsetText)
    ELSE IF \E k \in 1..Len(frames) : ~FrameIsValid(frames[k])
         THEN Throw(r, "Error", InvalidFrameText)
         ELSE IssueCall([r EXCEPT !.attempt = 1])

\* return response.text;
analyzeSuccess(r, text) == Return(Log(r, Ev("ok", r.attempt, 0, <<text>>)), <<text>>)

\* ---------------------------------------------------- generateWorkoutPlan

\* Mutant of planAfterLoop: the raw message is propagated after an overload too.
planAfterLoop_AlwaysRaw(r) ==
    IF r.lastError.isSet
    THEN Throw(r, "Error", PlanPrefix \o r.lastError.message)
    ELSE Throw(r, "Error", PlanUnknownText)

\* After the loop: the error thrown for the last failure.
planAfterLoop(r) ==
    IF r.lastError.isSet
    THEN IF IsOverloadMessage(toLowerCase(r.lastError.message))
         THEN Throw(r, "Error", OverloadedText)
         ELSE Throw(r, "Error", PlanPrefix \o r.lastError.message)
    ELSE Throw(r, "Error", PlanUnknownText)

\* Mutant of planCatch: an overload is retried whatever the attempt number.
planCatch_NoCeiling(r, msg) ==
    LET c == Caught(r, msg)
        errorMessage == toLowerCase(c.lastError.message)
    IN  IF IsOverloadMessage(errorMessage)
        THEN Retry(c)
        ELSE planAfterLoop(c)

\* The catch block of the loop.
planCatch(r, msg) ==
    LET c == Caught(r, msg)
        errorMessage == toLowerCase(c.lastError.message)
    IN  IF IsOverloadMessage(errorMessage) /\ c.attempt < MAX_RETRIES
        THEN Retry(c)
        ELSE planAfterLoop(c)

\* Mutant of planInvoke: the attempts are counted from 0.
planInvoke_FromZero(r) ==
    IF r.apiKey = ""
    THEN Throw(r, "Error", KeyUnsetText)
    ELSE IssueCall([r EXCEPT !.attempt = 0])

\* The call up to its first await: the key check, attempt 1.
planInvoke(r) ==
    IF r.apiKey = ""
    THEN Throw(r, "Error", KeyUnsetText)
    ELSE IssueCall([r EXCEPT !.attempt = 1])

\* return JSON.parse(response.text); a SyntaxError is thrown inside the try
\* block and reaches the catch block like a failure of the request.
planSuccess(r, text) ==
    IF IsJson(text)
    THEN Return(Log(r, Ev("ok", r.attempt, 0, <<text>>)), JsonParse(text))
    ELSE planCatch(r, SyntaxErrorMessage)

\* -------------------------------------------------- generateExerciseVideo

\* if (!operation) { ... } after the loop.
videoAfterLoop(r) ==
    IF r.lastError.isSet
    THEN IF IsOverloadMessage(toLowerCase(r.lastError.message))
         THEN Throw(r, "Error", VideoOverloadedText)
         ELSE IF IsEntityNotFound(r.lastError.message)
              THEN Throw(r, "ApiKeyError", KeyNotFoundText)
              ELSE Throw(r, "Error", VideoStartPrefix \o r.lastError.message)
    ELSE Throw(r, "Error", VideoStartUnknownText)

\* Mutant of videoCatch: the last attempt is retried too (<= for <).
videoCatch_RetryOnLast(r, msg) ==
    LET c == Caught(r, msg)
        errorMessage == toLowerCase(c.lastError.message)
    IN  IF IsOverloadMessage(errorMessage) /\ c.attempt <= MAX_RETRIES
        THEN Retry(c)
        ELSE videoAfterLoop(c)

\* The catch block of the start loop.
videoCatch(r, msg) ==
    LET c == Caught(r, msg)
        errorMessage == toLowerCase(c.lastError.message)
    IN  IF IsOverloadMessage(errorMessage) /\ c.attempt < MAX_RETRIES
        THEN Retry(c)
        ELSE videoAfterLoop(c)

\* No key check: new GoogleGenAI({ apiKey: process.env.API_KEY }), attempt 1.
videoInvoke(r) == IssueCall([r EXCEPT !.attempt = 1])

\* Mutant of videoPollCatch: the overload test of the start call comes first.
videoPollCatch_OverloadFirst(r, thrown) ==
    IF thrown.isError
    THEN IF IsOverloadMessage(toLowerCase(thrown.message))
         THEN Throw(r, "Error", VideoOverloadedText)
         ELSE IF IsEntityNotFound(thrown.message)
              THEN Throw(r, "ApiKeyError", KeyNotFoundText)
              ELSE Throw(r, "Error", VideoPollPrefix \o thrown.message)
    ELSE Throw(r, "Error", VideoUnknownText)

\* Mutant of videoPollCatch: a thrown value that is no Error is only logged.
videoPollCatch_Swallow(r, thrown) ==
    IF thrown.isError
    THEN IF IsEntityNotFound(thrown.message)
         THEN Throw(r, "ApiKeyError", KeyNotFoundText)
         ELSE Throw(r, "Error", VideoPollPrefix \o thrown.message)
    ELSE Return(r, <<>>)

\* The catch block around the polling loop.  thrown = [isError, message]:
\* e instanceof Error, and e.message.
videoPollCatch(r, thrown) ==
    IF thrown.isError
    THEN IF IsEntityNotFound(thrown.message)
         THEN Throw(r, "ApiKeyError", KeyNotFoundText)
         ELSE Throw(r, "Error", VideoPollPrefix \o thrown.message)
    ELSE Throw(r, "Error", VideoUnknownText)

\* Mutant of videoPollLoop: the polling gives up after MAX_RETRIES polls.
videoPollLoop_WithCeiling(r) ==
    IF ~r.operation.done
    THEN IF r.polls >= MAX_RETRIES
         THEN Throw(r, "Error", VideoPollPrefix \o VideoUnknownText)
         ELSE [Log(r, Ev("wait", r.attempt, POLL_INTERVAL, <<>>)) EXCEPT !.pc = "pollWait"]
    ELSE IF r.operation.uri = ""
         THEN Throw(r, "Error", VideoPollPrefix \o NoLinkText)
         ELSE Return(r, <<r.operation.uri, "&key=", r.apiKey>>)

\* while (!operation.done) { await timer; ... }, then the download link.
videoPollLoop(r) ==
    IF ~r.operation.done
    THEN [Log(r, Ev("wait", r.attempt, POLL_INTERVAL, <<>>)) EXCEPT !.pc = "pollWait"]
    ELSE IF r.operation.uri = ""
         THEN videoPollCatch(r, [isError |-> TRUE, message |-> NoLinkText])
         ELSE Return(r, <<r.operation.uri, "&key=", r.apiKey>>)

\* operation = await generateVideos(...); lastError = null; break;
videoSuccess(r, operation) ==
    videoPollLoop([Log(r, Ev("ok", r.attempt, 0, <<>>))
                     EXCEPT !.operation = operation, !.lastError = NoError])

\* ---------------------------------------------------------------- actions

\* Mutant of Set: attempt and lastError are module-level variables, written
\* for every invocation that is under way.
Set_SharedLocals(i, r) ==
    /\ invocation' =
          [j \in DOMAIN invocation |->
              IF j = i
              THEN r
              ELSE IF invocation[j].pc \in {"attempting", "backoff"}
                   THEN [invocation[j] EXCEPT !.attempt = r.attempt,
                                              !.lastError = r.lastError]
                   ELSE invocation[j]]
    /\ UNCHANGED <<gym, cache, chat>>

\* A step of one invocation: the state of the components is not touched.
Set(i, r) == invocation' = [invocation EXCEPT ![i] = r] /\ UNCHANGED <<gym, cache, chat>>

\* A caller invokes one of the three functions.
Invoke(i) ==
    /\ invocation[i].pc = "idle"
    /\ \E op \in Operations, key \in ApiKeys, observer \in BOOLEAN, frames \in FrameLists :
          LET r == [invocation[i] EXCEPT !.op = op, !.apiKey = key, !.onProgress = observer]
          IN  \/ /\ op = "analyzeVideoWithFrames"
                 /\ Set(i, analyzeInvoke([r EXCEPT !.frames = frames], frames))
              \/ /\ op = "generateWorkoutPlan"
                 /\ Set(i, planInvoke(r))
              \/ /\ op = "generateExerciseVideo"
                 /\ Set(i, videoInvoke(r))

\* The awaited request of the current attempt resolves.
AttemptSucceeds(i) ==
    LET r == invocation[i]
    IN  /\ r.pc = "attempting"
        /\ \/ /\ r.op = "analyzeVideoWithFrames"
              /\ \E text \in ResponseTexts : Set(i, analyzeSuccess(r, text))
           \/ /\ r.op = "generateWorkoutPlan"
              /\ \E text \in ResponseTexts : Set(i, planSuccess(r, text))
           \/ /\ r.op = "generateExerciseVideo"
              /\ \E operation \in VideoOperations : Set(i, videoSuccess(r, operation))

\* The awaited request of the current attempt rejects.
AttemptFails(i) ==
    LET r == invocation[i]
    IN  /\ r.pc = "attempting"
        /\ \E msg \in Messages :
              \/ /\ r.op = "analyzeVideoWithFrames"
                 /\ Set(i, analyzeCatch(r, msg))
              \/ /\ r.op = "generateWorkoutPlan"
                 /\ Set(i, planCatch(r, msg))
              \/ /\ r.op = "generateExerciseVideo"
                 /\ Set(i, videoCatch(r, msg))

\* The backoff timer fires: attempt++, attempt <= MAX_RETRIES, the next request.
BackoffEnds(i) ==
    LET r == invocation[i]
    IN  /\ r.pc = "backoff"
        /\ r.attempt + 1 <= MAX_RETRIES
        /\ Set(i, IssueCall([r EXCEPT !.attempt = @ + 1]))

\* The 10 s timer fires: getVideosOperation is issued.
PollWaitEnds(i) ==
    LET r == invocation[i]
    IN  /\ r.pc = "pollWait"
        /\ Set(i, [Log(r, Ev("poll", r.attempt, 0, <<>>))
                      EXCEPT !.pc = "polling", !.polls = @ + 1])

\* getVideosOperation resolves; the job has to be done after MaxPolls polls.
PollReturns(i) ==
    LET r == invocation[i]
    IN  /\ r.pc = "polling"
        /\ \E operation \in VideoOperations :
              /\ operation.done \/ r.polls < MaxPolls
              /\ Set(i, videoPollLoop([Log(r, Ev("pollok", r.attempt,
                                                 IF operation.done THEN 1 ELSE 0, <<>>))
                                          EXCEPT !.operation = operation]))

\* getVideosOperation rejects, with an Error or with another thrown value.
PollFails(i) ==
    LET r == invocation[i]
    IN  /\ r.pc = "polling"
        /\ \E isError \in BOOLEAN, msg \in Messages :
              Set(i, videoPollCatch(Log(r, Ev("pollfail", r.attempt, IF isError THEN 1 ELSE 0, msg)),
                                    [isError |-> isError, message |-> msg]))

Next ==
    \/ \E i \in Invocations : Invoke(i)
    \/ \E i \in Invocations : AttemptSucceeds(i)
    \/ \E i \in Invocations : AttemptFails(i)
    \/ \E i \in Invocations : BackoffEnds(i)
    \/ \E i \in Invocations : PollWaitEnds(i)
    \/ \E i \in Invocations : PollReturns(i)
    \/ \E i \in Invocations : PollFails(i)

Spec == Init /\ [][Next]_vars

\* An awaited request settles: generateContent / generateVideos returns or
\* rejects.
CallSettles == \E i \in Invocations : AttemptSucceeds(i) \/ AttemptFails(i)

\* An awaited setTimeout promise of the retry loop resolves.
SleepEnds == \E i \in Invocations : BackoffEnds(i)

\* The program under the scheduling a JavaScript host gives: a request that
\* was issued is eventually answered, a timer that was set eventually fires.
\* Nothing is assumed about the status polls.
FairSpec == Spec /\ WF_vars(CallSettles) /\ WF_vars(SleepEnds)

\* ------------------------------------------------ two invocations at once

\* Two invocations of one behaviour: the second may be made before, while or
\* after the first one runs.
Pair == {1, 2}

\* The answers the backend gives where two invocations run side by side: a
\* transient overload, an overload that names the key, an unclassified failure.
PairMessages == {MsgServiceUnavailable, MsgKeyInvalid503, MsgMalformed}

\* The callers and the backend of the two invocations: a key is set, an
\* observer is passed, one valid frame, failures from PairMessages, a job that
\* is done after MaxPairPolls polls at most.
InPairScope(r) ==
    /\ r.apiKey # ""
    /\ r.onProgress
    /\ r.op = "analyzeVideoWithFrames" => r.frames = <<FrameOk>>
    /\ \A k \in 1..Len(r.log) :
          /\ r.log[k].type \in {"fail", "pollfail"} => r.log[k].msg \in PairMessages
          /\ r.log[k].type = "pollfail" => r.log[k].arg = 1
    /\ r.pc = "pollWait" => r.polls < MaxPairPolls
    /\ r.operation \in {NoOperation, OperationPending, OperationDone}

InitPair ==
    /\ invocation = [i \in Pair |-> Idle]
    /\ gym = Mounted("GymAnalyzer.tsx", TRUE)
    /\ cache = InitialCache
    /\ chat = ChatMounted

NextPair ==
    \/ \E i \in Pair : Invoke(i) /\ InPairScope(invocation'[i])
    \/ \E i \in Pair : AttemptSucceeds(i) /\ InPairScope(invocation'[i])
    \/ \E i \in Pair : AttemptFails(i) /\ InPairScope(invocation'[i])
    \/ \E i \in Pair : BackoffEnds(i) /\ InPairScope(invocation'[i])
    \/ \E i \in Pair : PollWaitEnds(i) /\ InPairScope(invocation'[i])
    \/ \E i \in Pair : PollReturns(i) /\ InPairScope(invocation'[i])
    \/ \E i \in Pair : PollFails(i) /\ InPairScope(invocation'[i])

SpecPair == InitPair /\ [][NextPair]_vars

\* ------------------------------------------------------------ videoCache.ts

\* The position of the first key that is the name, both lower-cased and
\* trimmed (for (const key in videoDatabase) ...: insertion order); 0: none.
CacheHit(db, exerciseName) ==
    LET lowerCaseExerciseName == trim(toLowerCase(exerciseName))
        hits == {k \in 1..Len(db) : trim(toLowerCase(db[k].key)) = lowerCaseExerciseName}
    IN  IF hits = {} THEN 0 ELSE CHOOSE k \in hits : \A j \in hits : k <= j

\* Mutant of getCachedVideo: the keys are compared as they are written.
getCachedVideo_ExactKey(db, exerciseName) ==
    IF \E k \in 1..Len(db) : db[k].key = exerciseName
    THEN db[CHOOSE k \in 1..Len(db) : db[k].key = exerciseName].url
    ELSE Null

getCachedVideo(db, exerciseName) ==
    IF CacheHit(db, exerciseName) = 0 THEN Null ELSE db[CacheHit(db, exerciseName)].url

\* Mutant of cacheVideo: the entry is written whatever the lookup returns.
cacheVideo_Overwrite(db, exerciseName, videoUrl) ==
    IF \E k \in 1..Len(db) : db[k].key = exerciseName
    THEN [k \in 1..Len(db) |->
             IF db[k].key = exerciseName THEN [db[k] EXCEPT !.url = videoUrl] ELSE db[k]]
    ELSE Append(db, [key |-> exerciseName, url |-> videoUrl])

\* if (!getCachedVideo(exerciseName)) videoDatabase[exerciseName] = videoUrl;
\* an assignment to an existing key keeps its place.
cacheVideo(db, exerciseName, videoUrl) ==
    IF Truthy(getCachedVideo(db, exerciseName))
    THEN db
    ELSE IF \E k \in 1..Len(db) : db[k].key = exerciseName
         THEN [k \in 1..Len(db) |->
                  IF db[k].key = exerciseName THEN [db[k] EXCEPT !.url = videoUrl] ELSE db[k]]
         ELSE Append(db, [key |-> exerciseName, url |-> videoUrl])

\* A call cacheVideo(exerciseName, videoUrl) of the module, noted with what
\* its own lookup of the name returned.
cacheVideoCall(c, exerciseName, videoUrl) ==
    [videoDatabase |-> cacheVideo(c.videoDatabase, exerciseName, videoUrl),
     writes |-> Append(c.writes,
                       [name |-> exerciseName, url |-> videoUrl,
                        found |-> getCachedVideo(c.videoDatabase, exerciseName)])]

\* The names and URLs the module is called with: a name in three letter
\* cases and with blanks around it, a name of the pre-populated entries, a
\* third name; the empty URL and two others.
CacheNames ==
    { <<"Lunge">>, <<"lunge">>, <<" ", "LUNGE", " ">>, <<"plank">>, <<"Plank">>, <<"Row">> }

CacheUrls == { <<>>, <<"blob:u1">>, <<"blob:u2">> }

\* cacheVideo(exerciseName, videoUrl) is called.
CacheVideo(exerciseName, videoUrl) ==
    /\ Len(cache.writes) < MaxWrites
    /\ cache' = cacheVideoCall(cache, exerciseName, videoUrl)
    /\ UNCHANGED <<invocation, gym, chat>>

InitCache ==
    /\ invocation = [i \in Invocations |-> Idle]
    /\ gym = Mounted("part_004", FALSE)
    /\ cache = InitialCache
    /\ chat = ChatMounted

NextCache ==
    \E exerciseName \in CacheNames, videoUrl \in CacheUrls :
        CacheVideo(exerciseName, videoUrl)

SpecCache == InitCache /\ [][NextCache]_vars

\* ------------------------------------------------- GymAnalyzer: the inputs

\* event.target.files?.[0]: a video, a file of another type, no file.
FileVideo == [name |-> "gym.mp4", type |-> <<"video/", "mp4">>]
FileText == [name |-> "notes.txt", type |-> <<"text/", "plain">>]

\* The file the video recorder of the Creator Studio hands to the App.
RecordedVideo == [name |-> "recorded-video.webm", type |-> <<"video/", "webm">>]
NoFile == [name |-> "", type |-> <<>>]

Files == {FileVideo, FileText, NoFile}

\* s.startsWith(t)
startsWith(s, t) == Len(s) >= Len(t) /\ SubSeq(s, 1, Len(t)) = t

\* What extractFramesFromVideo resolves to, and the message it rejects with.
ExtractedFrames == {<<>>, <<FrameOk>>}

ExtractionErrors == {<<"Video decoding failed">>}

\* What the user types into the refinement field.
RefinementPrompts == {<<>>, <<" ">>, <<"ignore cardio machines">>}

\* process.env.API_KEY of the build the component runs in.
ProcessEnvApiKey == "AIza-key"

\* What dbService.get resolves to: nothing stored, or a stored value.
StoredPlans == {<<[day |-> "Day 1", exercises |-> << <<"Lunge">> >>]>>}

StoredVideos == {<<"blob:stored-video">>}

\* The failures of the backend while the component runs: an overload, an
\* invalid key, a missing entity.
GymMessages == {MsgServiceUnavailable, MsgKeyInvalid, MsgEntity}

\* The backend as the component meets it: failures from GymMessages, an
\* overload at most once in a call, an analysis text for an analysis and a
\* plan document for a plan, a video job that is done at its first status
\* poll at the latest.
InGymScope(r) ==
    /\ Cardinality({k \in 1..Len(r.log) : r.log[k].type = "sleep"}) <= 1
    /\ \A k \in 1..Len(r.log) :
          /\ r.log[k].type \in {"fail", "pollfail"} => r.log[k].msg \in GymMessages
          /\ r.log[k].type = "pollfail" => r.log[k].arg = 1
          /\ r.log[k].type = "ok" /\ r.op = "analyzeVideoWithFrames"
                => ~IsJson(r.log[k].msg[1])
          /\ r.log[k].type = "ok" /\ r.op = "generateWorkoutPlan"
                => r.log[k].msg[1] \in {"[]", "[{day:Day 1,exercises:[{name:plank},{name:Lunge}]}]"}
    /\ r.pc = "pollWait" => r.polls < 1
    /\ r.operation \in {NoOperation, OperationPending, OperationDone}

\* ------------------------------------------------ GymAnalyzer: the texts

InvalidFileText == <<"Please select a valid video file.">>
NoFramesText ==
    <<"Could not ", "extract", " any frames from the video. The file might be ",
      "corrupt", "ed or in an unsupported format.">>
CannotProcessText ==
    <<"Could not process the video file. It may be corrupt or in an unsupported format. Please try a different video.">>
AnalysisFailedPrefix == <<"Analysis failed: ">>
UnknownErrorText == <<"An unknown error occurred.">>
UnknownAnalysisErrorText == <<"An unknown error occurred during analysis.">>
ApiKeyErrorPrefix == <<"API Key Error: ">>
ApiKeyErrorSuffix == <<". Please select a valid key and try again.">>
RefinementFailedText ==
    <<"The refinement failed. The AI might be busy or unable to process the request. Please try again.">>
PlanFailedText ==
    <<"The workout plan could not be generated. This is likely a temporary issue. Please try again in a moment.">>
PlanFailedText004 == <<"Failed to generate workout plan.">>
MustSelectKeyText == <<"You must select an API key to generate videos.">>
NoKeySelectionText == <<"API key selection is not available in this environment.">>
NoKeyDialogText == <<"Could not open API key selection dialog.">>
ReselectSuffix == <<" Please re-select your key and try again.">>
NoEquipmentNote ==
    "\n\n**Note:** I couldn't identify specific equipment to generate a plan. You can still use the analysis above for exercise ideas!"
NoEquipmentNoteRefined ==
    "\n\n**Note:** I couldn't identify specific equipment to generate a plan based on your refinement."

\* e.message || fallback
MessageOr(e, fallback) == IF e.message # <<>> THEN e.message ELSE fallback

\* new Error(message), and the error a rejected invocation carries.
Error(message) == [kind |-> "Error", message |-> message]

Thrown(r) == [kind |-> r.outcome.kind, message |-> r.outcome.message]

\* ------------------------------------------ GymAnalyzer: state and render

\* setLastFailedAction(() => ...): the handler of slot h as a function to
\* call again, with the values its closure holds.
StoredAction(g, h) ==
    [kind |-> g.handlers[h].kind,
     equipmentList |-> g.handlers[h].equipmentList,
     isRegeneration |-> g.handlers[h].isRegeneration,
     refinementPrompt |-> g.handlers[h].refinementPrompt]

\* The handler call of slot h has run to its end.
Finish(g, h) == [g EXCEPT !.handlers[h] = NoHandler]

\* The handler call of slot h is suspended at an await.
Await(g, h, hd) == [g EXCEPT !.handlers[h] = hd]

\* setGeneratedVideos(prev => ({ ...prev, [exercise.name]: url }))
setGeneratedVideos(g, name, url) ==
    [g EXCEPT !.generatedVideos = {p \in @ : p[1] # name} \cup {<<name, url>>}]

\* generatedVideos[exercise.name] is truthy.
HasGeneratedVideo(g, name) == \E p \in g.generatedVideos : p[1] = name /\ Truthy(p[2])

\* The exercises of the plan on display.
Exercises(plan) ==
    UNION {{plan.days[d].exercises[k] : k \in 1..Len(plan.days[d].exercises)} :
              d \in 1..Len(plan.days)}

\* {analysis && !loadingState.active && ( ... )}
AnalysisShown(g) == g.analysis # <<>> /\ ~g.loadingActive

\* {workoutPlan && !loadingState.active && ( ... )}
PlanShown(g) == g.workoutPlan.isSet /\ ~g.loadingActive

\* The lowest free handler slot, in a session of at most MaxClicks clicks on
\* the buttons that call a handler.
FreeSlot(h) ==
    /\ gym.clicks < MaxClicks
    /\ gym.handlers[h] = NoHandler
    /\ \A j \in Handlers : j < h => gym.handlers[j] # NoHandler

\* The component after one more click.
Clicked(g) == [g EXCEPT !.clicks = @ + 1]

\* Mutant of Commit: the state updates of an unmounted component are rendered.
Commit_Unmounted(g) == g

\* The state updates of a step as React applies them: those of the handler
\* of a component that was unmounted are ignored, the handler itself goes on.
Commit(g) ==
    IF \E h \in Handlers : gym.handlers[h].unmounted /\ g.handlers[h] # gym.handlers[h]
    THEN [gym EXCEPT !.handlers = g.handlers, !.ignoredUpdate = TRUE]
    ELSE g

\* A step of the component alone, and one that also starts or ends the
\* invocation of slot h.
GymStep(g) == gym' = Commit(g) /\ UNCHANGED <<invocation, cache, chat>>

GymCall(g, h, r) ==
    /\ gym' = Commit(g)
    /\ invocation' = [invocation EXCEPT ![h] = r]
    /\ UNCHANGED <<cache, chat>>

\* The arguments of a call of one of the three functions.
Call(op, onProgress, frames) ==
    [Idle EXCEPT !.op = op, !.apiKey = ProcessEnvApiKey,
                 !.onProgress = onProgress, !.frames = frames]

\* ----------------------------------------- GymAnalyzer: file, key, refine

resetState(g) ==
    LET s == [g EXCEPT !.videoFile = "", !.analysis = <<>>, !.error = <<>>,
                       !.workoutPlan = NoPlan, !.equipmentList = "",
                       !.isGeneratingVideo = <<>>, !.generatedVideos = {},
                       !.lastFailedAction = NoAction]
    IN  IF g.copy = "GymAnalyzer.tsx"
        THEN [s EXCEPT !.extractedFrames = NoFrames, !.isRefining = FALSE,
                       !.refinementPrompt = <<>>]
        ELSE s

\* The file input exists only while no video is selected.
handleFileChange ==
    /\ gym.videoFile = ""
    /\ \E file \in Files :
          LET s == resetState(gym)
          IN  GymStep(IF file # NoFile /\ startsWith(file.type, <<"video/">>)
                      THEN [s EXCEPT !.videoFile = file.name]
                      ELSE IF gym.copy = "part_004"
                           THEN [s EXCEPT !.error = InvalidFileText]
                           ELSE s)

\* The effect of the first render: setApiKeySelected(await hasSelectedApiKey()).
checkApiKey ==
    /\ gym.checkApiKey
    /\ \E hasKey \in BOOLEAN :
          GymStep([gym EXCEPT !.apiKeySelected = hasKey, !.checkApiKey = FALSE])

\* The buttons Refine Analysis and Cancel.
setIsRefining ==
    /\ gym.copy = "GymAnalyzer.tsx"
    /\ AnalysisShown(gym)
    /\ GymStep([gym EXCEPT !.isRefining = ~@])

\* The refinement field.
setRefinementPrompt ==
    /\ gym.copy = "GymAnalyzer.tsx"
    /\ AnalysisShown(gym)
    /\ gym.isRefining
    /\ \E prompt \in RefinementPrompts :
          /\ prompt # gym.refinementPrompt
          /\ GymStep([gym EXCEPT !.refinementPrompt = prompt])

\* The button Select API Key under the plan: await openSelectKey().
SelectApiKeyClick(h) ==
    /\ FreeSlot(h)
    /\ PlanShown(gym)
    /\ ~gym.apiKeySelected
    /\ gym.aistudio
    /\ GymStep(Await(Clicked(gym), h, [NoHandler EXCEPT !.kind = "SelectApiKey",
                                               !.pc = "openSelectKey"]))

\* ------------------------------------------------- handleAnalyzeClick

\* result.match(/###\s+Equipment Identified\s*([\s\S]*?)(?:###|$)/i), the
\* lines of group 1 without bullet and blanks, joined by ", "; "" when there
\* is no match or no line.
EquipmentString(result) ==
    IF result = "### Equipment Identified\n- hex dumbbells\n- flat bench\n### Potential Exercises"
    THEN "hex dumbbells, flat bench"
    ELSE ""

\* setAnalysis(result) and setEquipmentList, or the analysis with a note.
analysisDone(g, result, note) ==
    IF EquipmentString(result) # ""
    THEN [g EXCEPT !.analysis = <<result>>, !.equipmentList = EquipmentString(result)]
    ELSE [g EXCEPT !.analysis = <<result, note>>]

\* catch (e) of handleAnalyzeClick in GymAnalyzer.tsx.
analyzeClickCatch(g, h, e) ==
    LET lower == toLowerCase(e.message)
        friendlyMessage ==
            IF includes(lower, <<"extract">>) \/ includes(lower, <<"corrupt">>)
            THEN CannotProcessText
            ELSE AnalysisFailedPrefix \o MessageOr(e, UnknownErrorText)
    IN  IF e.kind = "ApiKeyError"
        THEN [g EXCEPT !.apiKeySelected = FALSE,
                       !.error = ApiKeyErrorPrefix \o e.message \o ApiKeyErrorSuffix]
        ELSE [g EXCEPT !.error = friendlyMessage, !.lastFailedAction = StoredAction(g, h)]

\* catch (e) of handleAnalyzeClick in part_004: no test for an ApiKeyError.
analyzeClickCatch004(g, h, e) ==
    [g EXCEPT !.error = MessageOr(e, UnknownAnalysisErrorText),
              !.lastFailedAction = StoredAction(g, h)]

\* Mutant of analyzeClickFailed: no finally block.
analyzeClickFailed_NoFinally(g, h, e) ==
    LET c == IF g.copy = "part_004"
             THEN analyzeClickCatch004(g, h, e)
             ELSE analyzeClickCatch(g, h, e)
    IN  Finish(c, h)

\* catch and finally of handleAnalyzeClick: the handler ends.
analyzeClickFailed(g, h, e) ==
    LET c == IF g.copy = "part_004"
             THEN analyzeClickCatch004(g, h, e)
             ELSE analyzeClickCatch(g, h, e)
    IN  Finish([c EXCEPT !.loadingActive = FALSE], h)

\* handleAnalyzeClick(), up to await extractFramesFromVideo.
analyzeClickRun(g, h, retried) ==
    IF g.videoFile = ""
    THEN GymStep(g)
    ELSE LET s == [g EXCEPT !.error = <<>>, !.lastFailedAction = NoAction,
                            !.analysis = <<>>, !.workoutPlan = NoPlan,
                            !.equipmentList = "", !.loadingActive = TRUE]
             t == IF g.copy = "GymAnalyzer.tsx"
                  THEN [s EXCEPT !.extractedFrames = NoFrames]
                  ELSE s
         IN  GymStep(Await(t, h, [NoHandler EXCEPT !.kind = "handleAnalyzeClick",
                                                   !.pc = "extractFrames",
                                                   !.retried = retried,
                                                   !.videoFile = g.videoFile]))

\* The click on Analyze Gym Equipment.
handleAnalyzeClick(h) ==
    /\ FreeSlot(h)
    /\ gym.videoFile # ""
    /\ ~gym.loadingActive
    /\ analyzeClickRun(Clicked(gym), h, FALSE)

\* extractFramesFromVideo settles: the frames are kept, and with no frame the
\* handler throws; otherwise analyzeVideoWithFrames is called.
ExtractFramesSettles(h) ==
    /\ gym.handlers[h].pc = "extractFrames"
    /\ \/ \E frames \in ExtractedFrames :
             LET s == IF gym.copy = "GymAnalyzer.tsx"
                      THEN [gym EXCEPT !.extractedFrames = [isSet |-> TRUE, frames |-> frames]]
                      ELSE gym
             IN  IF Len(frames) = 0
                 THEN GymStep(analyzeClickFailed(s, h, Error(NoFramesText)))
                 ELSE GymCall(Await(s, h, [s.handlers[h] EXCEPT !.pc = "guardedCall"]), h,
                              analyzeInvoke(Call("analyzeVideoWithFrames", TRUE, frames), frames))
       \/ \E message \in ExtractionErrors :
             GymStep(analyzeClickFailed(gym, h, Error(message)))

\* ------------------------------------------------- handleRefineAnalysis

\* catch (e) of handleRefineAnalysis.
refineCatch(g, h, e) ==
    IF e.kind = "ApiKeyError"
    THEN [g EXCEPT !.apiKeySelected = FALSE,
                   !.error = ApiKeyErrorPrefix \o e.message \o ApiKeyErrorSuffix]
    ELSE [g EXCEPT !.error = MessageOr(e, RefinementFailedText),
                   !.lastFailedAction = StoredAction(g, h)]

\* finally of handleRefineAnalysis: the handler ends.
refineFinally(g, h) ==
    Finish([g EXCEPT !.loadingActive = FALSE, !.isRefining = FALSE,
                     !.refinementPrompt = <<>>], h)

\* handleRefineAnalysis() with the refinementPrompt of its closure, up to
\* await analyzeVideoWithFrames.
refineRun(g, h, refinementPrompt, retried) ==
    IF ~g.extractedFrames.isSet \/ trim(refinementPrompt) = <<>>
    THEN GymStep(g)
    ELSE GymCall(Await([g EXCEPT !.error = <<>>, !.lastFailedAction = NoAction,
                                 !.workoutPlan = NoPlan, !.equipmentList = "",
                                 !.loadingActive = TRUE],
                       h, [NoHandler EXCEPT !.kind = "handleRefineAnalysis",
                                            !.pc = "guardedCall",
                                            !.refinementPrompt = refinementPrompt,
                                            !.retried = retried]),
                 h,
                 analyzeInvoke(Call("analyzeVideoWithFrames", TRUE, g.extractedFrames.frames),
                               g.extractedFrames.frames))

\* The click on Submit Refinement.
handleRefineAnalysis(h) ==
    /\ FreeSlot(h)
    /\ gym.copy = "GymAnalyzer.tsx"
    /\ AnalysisShown(gym)
    /\ gym.isRefining
    /\ trim(gym.refinementPrompt) # <<>>
    /\ refineRun(Clicked(gym), h, gym.refinementPrompt, FALSE)

\* ---------------------------------------------------------- generatePlan

\* catch (e) and finally of generatePlan / handleGeneratePlanClick.
planFailed(g, h, e) ==
    Finish([g EXCEPT !.error = MessageOr(e, IF g.copy = "part_004"
                                           THEN PlanFailedText004 ELSE PlanFailedText),
                     !.lastFailedAction = StoredAction(g, h),
                     !.loadingActive = FALSE], h)

\* await generateWorkoutPlan(...).  part_004 passes its callback as the second
\* argument, where the function now takes the fitness level: no observer.
planCall(g, h) ==
    GymCall(Await(g, h, [g.handlers[h] EXCEPT !.pc = "guardedCall"]), h,
            planInvoke(Call("generateWorkoutPlan", g.copy = "GymAnalyzer.tsx", <<>>)))

\* generatePlan(isRegeneration) with the equipmentList of its closure, up to
\* the first await.
planRun(g, h, equipmentList, isRegeneration, retried) ==
    IF equipmentList = ""
    THEN GymStep(g)
    ELSE LET hd == [NoHandler EXCEPT !.kind = "generatePlan",
                                     !.equipmentList = equipmentList,
                                     !.isRegeneration = isRegeneration,
                                     !.retried = retried]
             s == [g EXCEPT !.loadingActive = TRUE, !.error = <<>>,
                            !.lastFailedAction = NoAction,
                            !.workoutPlan = IF isRegeneration THEN @ ELSE NoPlan]
         IN  IF g.copy = "GymAnalyzer.tsx" /\ ~isRegeneration
             THEN GymStep(Await(s, h, [hd EXCEPT !.pc = "dbGet"]))
             ELSE planCall(Await(s, h, hd), h)

\* The click on Generate My Workout Plan or on Generate New Plan.
generatePlan(h) ==
    /\ FreeSlot(h)
    /\ \E isRegeneration \in BOOLEAN :
          /\ IF isRegeneration
             THEN gym.copy = "GymAnalyzer.tsx" /\ PlanShown(gym)
             ELSE /\ AnalysisShown(gym)
                  /\ gym.equipmentList # ""
                  /\ gym.copy = "GymAnalyzer.tsx" => ~gym.isRefining /\ ~gym.workoutPlan.isSet
          /\ planRun(Clicked(gym), h, gym.equipmentList, isRegeneration, FALSE)

\* Mutant of onRetry: Try Again always starts the analysis.
onRetry_AlwaysAnalyze(h) ==
    /\ FreeSlot(h)
    /\ gym.error # <<>>
    /\ gym.lastFailedAction # NoAction
    /\ analyzeClickRun([Clicked(gym) EXCEPT !.error = <<>>], h, TRUE)

\* The button Try Again of the error panel, shown with an error while a
\* failed action is stored: setError(null); lastFailedAction().
onRetry(h) ==
    /\ FreeSlot(h)
    /\ gym.error # <<>>
    /\ gym.lastFailedAction # NoAction
    /\ LET g == [Clicked(gym) EXCEPT !.error = <<>>]
           stored == gym.lastFailedAction
       IN  CASE stored.kind = "handleAnalyzeClick" -> analyzeClickRun(g, h, TRUE)
             [] stored.kind = "handleRefineAnalysis" ->
                    refineRun(g, h, stored.refinementPrompt, TRUE)
             [] OTHER ->
                    planRun(g, h, stored.equipmentList, stored.isRegeneration, TRUE)

\* ---------------------------------------------- handleGenerateVideoClick

\* setIsGeneratingVideo(exercise.name); setError(null); await
\* generateExerciseVideo(exercise.name): no observer is passed.
startGeneration(g, h) ==
    GymCall(Await([g EXCEPT !.isGeneratingVideo = g.handlers[h].exercise, !.error = <<>>],
                  h, [g.handlers[h] EXCEPT !.pc = "guardedCall"]),
            h, videoInvoke(Call("generateExerciseVideo", FALSE, <<>>)))

\* catch (e) and finally of handleGenerateVideoClick: the handler ends.
videoClickFailed(g, h, e) ==
    LET name == g.handlers[h].exercise
        c == IF e.kind = "ApiKeyError"
             THEN [g EXCEPT !.error = IF g.copy = "part_004"
                                      THEN e.message ELSE e.message \o ReselectSuffix,
                            !.apiKeySelected = FALSE]
             ELSE [g EXCEPT !.error =
                      IF g.copy = "part_004"
                      THEN <<"Failed to generate video for ">> \o name \o <<": ">> \o e.message
                      ELSE <<"The video for '">> \o name
                             \o <<"' could not be generated. This service may be temporarily unavailable. Please try again.">>]
    IN  Finish([c EXCEPT !.isGeneratingVideo = <<>>], h)

\* part_004 after its key check: the synchronous cache lookup, a hit is shown,
\* a miss starts the generation.
videoFromCache004(g, h) ==
    LET cachedVideo == getCachedVideo(cache.videoDatabase, g.handlers[h].exercise)
    IN  IF Truthy(cachedVideo)
        THEN GymStep(Finish(setGeneratedVideos(g, g.handlers[h].exercise, cachedVideo), h))
        ELSE startGeneration(g, h)

\* The click on View Demo of an exercise, up to the first await.
handleGenerateVideoClick(h) ==
    /\ FreeSlot(h)
    /\ PlanShown(gym)
    /\ gym.isGeneratingVideo = <<>>
    /\ \E exercise \in Exercises(gym.workoutPlan) :
          /\ ~HasGeneratedVideo(gym, exercise)
          /\ LET hd == [NoHandler EXCEPT !.kind = "handleGenerateVideoClick",
                                         !.exercise = exercise,
                                         !.apiKeySelected = gym.apiKeySelected]
                 c == Clicked(gym)
                 s == Await(c, h, hd)
             IN  IF gym.copy = "GymAnalyzer.tsx"
                 THEN GymStep(Await(c, h, [hd EXCEPT !.pc = "dbGet"]))
                 ELSE IF gym.apiKeySelected
                      THEN videoFromCache004(s, h)
                      ELSE IF gym.aistudio
                           THEN GymStep(Await(c, h, [hd EXCEPT !.pc = "openSelectKey"]))
                           ELSE GymStep([c EXCEPT !.error = NoKeySelectionText])

\* ------------------------------------------------ the awaits of a handler

\* dbService.get settles.  generatePlan: a stored plan is shown and the
\* handler returns through finally, a rejection is caught.
\* handleGenerateVideoClick: the lookup is outside the try block; a stored
\* video is shown, otherwise the key check follows.
DbGetSettles(h) ==
    LET hd == gym.handlers[h]
    IN  /\ hd.pc = "dbGet"
        /\ IF hd.kind = "generatePlan"
           THEN \/ \E cachedPlan \in StoredPlans :
                      GymStep(Finish([gym EXCEPT !.workoutPlan = [isSet |-> TRUE, days |-> cachedPlan],
                                                 !.loadingActive = FALSE], h))
                \/ planCall(gym, h)
                \/ GymStep(planFailed(gym, h, Error(<<"The database is not available">>)))
           ELSE \/ \E cachedVideo \in StoredVideos :
                      GymStep(Finish(setGeneratedVideos(gym, hd.exercise, cachedVideo), h))
                \/ GymStep(Finish(gym, h))
                \/ IF hd.apiKeySelected
                   THEN startGeneration(gym, h)
                   ELSE IF gym.aistudio
                        THEN GymStep(Await(gym, h, [hd EXCEPT !.pc = "hasSelectedApiKey"]))
                        ELSE GymStep(Finish([gym EXCEPT !.error = MustSelectKeyText], h))

\* window.aistudio.hasSelectedApiKey() settles, in handleGenerateVideoClick
\* of GymAnalyzer.tsx.
HasSelectedApiKeySettles(h) ==
    LET hd == gym.handlers[h]
    IN  /\ hd.pc = "hasSelectedApiKey"
        /\ \/ startGeneration([gym EXCEPT !.apiKeySelected = TRUE], h)
           \/ GymStep(Await(gym, h, [hd EXCEPT !.pc = "openSelectKey"]))
           \/ GymStep(Finish([gym EXCEPT !.error = MustSelectKeyText], h))

\* window.aistudio.openSelectKey() settles: setApiKeySelected(true); then
\* GymAnalyzer.tsx returns, part_004 goes on to its cache; a rejection shows
\* an error.
OpenSelectKeySettles(h) ==
    LET hd == gym.handlers[h]
        s == [gym EXCEPT !.apiKeySelected = TRUE]
    IN  /\ hd.pc = "openSelectKey"
        /\ \/ IF hd.kind = "handleGenerateVideoClick" /\ gym.copy = "part_004"
              THEN videoFromCache004(s, h)
              ELSE GymStep(Finish(s, h))
           \/ GymStep(Finish([gym EXCEPT !.error = IF hd.kind = "SelectApiKey"
                                                   THEN NoKeyDialogText
                                                   ELSE MustSelectKeyText], h))

\* The awaited call of analyzeVideoWithFrames, generateWorkoutPlan or
\* generateExerciseVideo has returned or thrown: the rest of the try block,
\* or catch, and finally.
GuardedCallSettles(h) ==
    LET hd == gym.handlers[h]
        r == invocation[h]
        value == r.outcome.value
    IN  /\ hd.pc = "guardedCall"
        /\ r.pc \in {"returned", "thrown"}
        /\ invocation' = [invocation EXCEPT ![h] = Idle]
        /\ gym' = Commit(
             CASE hd.kind = "handleAnalyzeClick" ->
                    IF r.pc = "thrown"
                    THEN analyzeClickFailed(gym, h, Thrown(r))
                    ELSE Finish([analysisDone(gym, value[1], NoEquipmentNote)
                                    EXCEPT !.loadingActive = FALSE], h)
               [] hd.kind = "handleRefineAnalysis" ->
                    IF r.pc = "thrown"
                    THEN refineFinally(refineCatch(gym, h, Thrown(r)), h)
                    ELSE refineFinally(analysisDone(gym, value[1], NoEquipmentNoteRefined), h)
               [] hd.kind = "generatePlan" ->
                    IF r.pc = "thrown"
                    THEN planFailed(gym, h, Thrown(r))
                    ELSE LET s == [gym EXCEPT !.workoutPlan = [isSet |-> TRUE, days |-> value]]
                         IN  IF gym.copy = "GymAnalyzer.tsx"
                             THEN Await(s, h, [hd EXCEPT !.pc = "dbSet"])
                             ELSE Finish([s EXCEPT !.loadingActive = FALSE], h)
               [] OTHER ->
                    IF r.pc = "thrown"
                    THEN videoClickFailed(gym, h, Thrown(r))
                    ELSE LET s == setGeneratedVideos(gym, hd.exercise, value)
                         IN  IF gym.copy = "GymAnalyzer.tsx"
                             THEN Await(s, h, [hd EXCEPT !.pc = "dbSet"])
                             ELSE Finish([s EXCEPT !.isGeneratingVideo = <<>>], h))
        /\ cache' = IF /\ hd.kind = "handleGenerateVideoClick"
                       /\ r.pc = "returned"
                       /\ gym.copy = "part_004"
                    THEN cacheVideoCall(cache, hd.exercise, value)
                    ELSE cache
        /\ UNCHANGED chat

\* dbService.set settles after a generation in GymAnalyzer.tsx: finally, or
\* catch and finally.
DbSetSettles(h) ==
    LET hd == gym.handlers[h]
    IN  /\ hd.pc = "dbSet"
        /\ \/ GymStep(Finish(IF hd.kind = "generatePlan"
                             THEN [gym EXCEPT !.loadingActive = FALSE]
                             ELSE [gym EXCEPT !.isGeneratingVideo = <<>>], h))
           \/ GymStep(IF hd.kind = "generatePlan"
                      THEN planFailed(gym, h, Error(<<"The database is not available">>))
                      ELSE videoClickFailed(gym, h, Error(<<"The database is not available">>)))

\* ------------------------------------------------------ the component runs

InitGym ==
    /\ invocation = [h \in Handlers |-> Idle]
    /\ gym \in {Mounted(copy, aistudio) : copy \in Copies, aistudio \in BOOLEAN}
    /\ cache = InitialCache
    /\ chat = ChatMounted

NextGym ==
    \/ handleFileChange
    \/ checkApiKey
    \/ setIsRefining
    \/ setRefinementPrompt
    \/ \E h \in Handlers : SelectApiKeyClick(h)
    \/ \E h \in Handlers : handleAnalyzeClick(h)
    \/ \E h \in Handlers : handleRefineAnalysis(h)
    \/ \E h \in Handlers : generatePlan(h)
    \/ \E h \in Handlers : handleGenerateVideoClick(h)
    \/ \E h \in Handlers : onRetry(h)
    \/ \E h \in Handlers : ExtractFramesSettles(h)
    \/ \E h \in Handlers : DbGetSettles(h)
    \/ \E h \in Handlers : HasSelectedApiKeySettles(h)
    \/ \E h \in Handlers : OpenSelectKeySettles(h)
    \/ \E h \in Handlers : GuardedCallSettles(h)
    \/ \E h \in Handlers : DbSetSettles(h)
    \/ \E h \in Handlers : AttemptSucceeds(h) /\ InGymScope(invocation'[h])
    \/ \E h \in Handlers : AttemptFails(h) /\ InGymScope(invocation'[h])
    \/ \E h \in Handlers : BackoffEnds(h) /\ InGymScope(invocation'[h])
    \/ \E h \in Handlers : PollWaitEnds(h) /\ InGymScope(invocation'[h])
    \/ \E h \in Handlers : PollReturns(h) /\ InGymScope(invocation'[h])
    \/ \E h \in Handlers : PollFails(h) /\ InGymScope(invocation'[h])

SpecGym == InitGym /\ [][NextGym]_vars

\* An awaited promise of the handler of slot h settles and the handler goes
\* on: the frames of the video, the database, the guarded call.
HandlerResumes(h) ==
    \/ ExtractFramesSettles(h)
    \/ DbGetSettles(h)
    \/ GuardedCallSettles(h)
    \/ DbSetSettles(h)

\* A request of the guarded call of slot h is answered, or one of its timers
\* fires.
BackendAnswers(h) ==
    \/ AttemptSucceeds(h) /\ InGymScope(invocation'[h])
    \/ AttemptFails(h) /\ InGymScope(invocation'[h])
    \/ BackoffEnds(h) /\ InGymScope(invocation'[h])
    \/ PollWaitEnds(h) /\ InGymScope(invocation'[h])
    \/ PollReturns(h) /\ InGymScope(invocation'[h])
    \/ PollFails(h) /\ InGymScope(invocation'[h])

\* The component under the scheduling of a browser: a request that was made
\* is answered, a timer that was set fires, a promise of the video element or
\* of the database settles, and the handler that awaits it is resumed.
\* Nothing is assumed about the key dialog, which the user may leave open.
FairSpecGym ==
    /\ SpecGym
    /\ \A h \in Handlers : WF_vars(HandlerResumes(h)) /\ WF_vars(BackendAnswers(h))

\* ------------------------------------------- analysis, plan and Try Again

\* The failures of the backend where a failed action is called again: an
\* overload, an invalid key, an unclassified failure.
RetryMessages == {MsgServiceUnavailable, MsgKeyInvalid, MsgMalformed}

\* The backend with the whole attempt budget: failures from RetryMessages at
\* any attempt, an analysis text for an analysis, a plan document for a plan.
InRetryScope(r) ==
    \A k \in 1..Len(r.log) :
        /\ r.log[k].type = "fail" => r.log[k].msg \in RetryMessages
        /\ r.log[k].type = "ok" /\ r.op = "analyzeVideoWithFrames"
              => r.log[k].msg[1] =
                   "### Equipment Identified\n- hex dumbbells\n- flat bench\n### Potential Exercises"
        /\ r.log[k].type = "ok" /\ r.op = "generateWorkoutPlan"
              => r.log[k].msg[1] = "[{day:Day 1,exercises:[{name:plank},{name:Lunge}]}]"

\* The component with a key selected; the user selects a video, analyses it,
\* asks for plans and uses Try Again.
InitRetry ==
    /\ invocation = [h \in Handlers |-> Idle]
    /\ gym \in {[Mounted(copy, TRUE) EXCEPT !.checkApiKey = FALSE, !.apiKeySelected = TRUE] :
                   copy \in Copies}
    /\ cache = InitialCache
    /\ chat = ChatMounted

NextRetry ==
    \/ handleFileChange
    \/ \E h \in Handlers : handleAnalyzeClick(h)
    \/ \E h \in Handlers : generatePlan(h)
    \/ \E h \in Handlers : onRetry(h)
    \/ \E h \in Handlers : ExtractFramesSettles(h)
    \/ \E h \in Handlers : DbGetSettles(h)
    \/ \E h \in Handlers : GuardedCallSettles(h)
    \/ \E h \in Handlers : DbSetSettles(h)
    \/ \E h \in Handlers : AttemptSucceeds(h) /\ InRetryScope(invocation'[h])
    \/ \E h \in Handlers : AttemptFails(h) /\ InRetryScope(invocation'[h])
    \/ \E h \in Handlers : BackoffEnds(h)

SpecRetry == InitRetry /\ [][NextRetry]_vars

\* -------------------------------------------- leaving the tab and coming back

\* The user leaves the Analyzer tab and comes back to it, from the Creator
\* Studio with a recorded video or without one: the App renders a new
\* GymAnalyzer, whose effect takes the recorded video (resetState,
\* setVideoFile); the handlers of the old one are still under way.
Remount ==
    /\ gym.clicks < MaxClicks
    /\ \E initialVideoFile \in {NoFile, RecordedVideo} :
          /\ initialVideoFile # NoFile => gym.copy = "GymAnalyzer.tsx"
          /\ gym' = [Mounted(gym.copy, gym.aistudio) EXCEPT
                        !.clicks = gym.clicks + 1,
                        !.ignoredUpdate = gym.ignoredUpdate,
                        !.videoFile = initialVideoFile.name,
                        !.handlers = [h \in Handlers |->
                                         IF gym.handlers[h] = NoHandler
                                         THEN NoHandler
                                         ELSE [gym.handlers[h] EXCEPT !.unmounted = TRUE]]]
    /\ UNCHANGED <<invocation, cache, chat>>

NextRemount ==
    \/ handleFileChange
    \/ checkApiKey
    \/ Remount
    \/ \E h \in Handlers : handleAnalyzeClick(h)
    \/ \E h \in Handlers : ExtractFramesSettles(h)
    \/ \E h \in Handlers : GuardedCallSettles(h)
    \/ \E h \in Handlers : AttemptSucceeds(h) /\ InGymScope(invocation'[h])
    \/ \E h \in Handlers : AttemptFails(h) /\ InGymScope(invocation'[h])
    \/ \E h \in Handlers : BackoffEnds(h) /\ InGymScope(invocation'[h])

SpecRemount == InitGym /\ [][NextRemount]_vars

\* ------------------------------------------------- the videos of a plan

\* The plans on display when the user asks for videos: two exercises of one
\* day, and one exercise written in two ways on two days.
ShownPlans ==
    { JsonParse("[{day:Day 1,exercises:[{name:plank},{name:Lunge}]}]"),
      JsonParse("[{day:Day 1,exercises:[{name:Lunge}]},{day:Day 2,exercises:[{name:lunge}]}]") }

\* The component after a video was selected and analysed and a plan was
\* generated, with no handler under way.
PlanOnDisplay(copy, apiKeySelected, days) ==
    LET result == "### Equipment Identified\n- hex dumbbells\n- flat bench\n### Potential Exercises"
    IN  [Mounted(copy, TRUE) EXCEPT
            !.checkApiKey = FALSE,
            !.apiKeySelected = apiKeySelected,
            !.videoFile = FileVideo.name,
            !.analysis = <<result>>,
            !.equipmentList = EquipmentString(result),
            !.workoutPlan = [isSet |-> TRUE, days |-> days],
            !.extractedFrames = IF copy = "GymAnalyzer.tsx"
                                THEN [isSet |-> TRUE, frames |-> <<FrameOk>>]
                                ELSE NoFrames]

\* The failures of the backend while videos are generated: an invalid key, a
\* missing entity.
VideoMessages == {MsgKeyInvalid, MsgEntity}

\* The backend of the video generations: failures from VideoMessages, a job
\* that is done at its first status poll at the latest, with one of two
\* video uris.
InVideoScope(r) ==
    /\ \A k \in 1..Len(r.log) :
          /\ r.log[k].type \in {"fail", "pollfail"} => r.log[k].msg \in VideoMessages
          /\ r.log[k].type = "pollfail" => r.log[k].arg = 1
    /\ r.pc = "pollWait" => r.polls < 1
    /\ r.operation \in {NoOperation, OperationPending, OperationDone, OtherOperationDone}

InitVideo ==
    /\ invocation = [h \in Handlers |-> Idle]
    /\ gym \in {PlanOnDisplay(copy, apiKeySelected, days) :
                   copy \in Copies, apiKeySelected \in BOOLEAN, days \in ShownPlans}
    /\ cache = InitialCache
    /\ chat = ChatMounted

NextVideo ==
    \/ \E h \in Handlers : handleGenerateVideoClick(h)
    \/ \E h \in Handlers : DbGetSettles(h)
    \/ \E h \in Handlers : HasSelectedApiKeySettles(h)
    \/ \E h \in Handlers : OpenSelectKeySettles(h)
    \/ \E h \in Handlers : GuardedCallSettles(h)
    \/ \E h \in Handlers : DbSetSettles(h)
    \/ \E h \in Handlers : AttemptSucceeds(h) /\ InVideoScope(invocation'[h])
    \/ \E h \in Handlers : AttemptFails(h) /\ InVideoScope(invocation'[h])
    \/ \E h \in Handlers : PollWaitEnds(h) /\ InVideoScope(invocation'[h])
    \/ \E h \in Handlers : PollReturns(h) /\ InVideoScope(invocation'[h])
    \/ \E h \in Handlers : PollFails(h) /\ InVideoScope(invocation'[h])

SpecVideo == InitVideo /\ [][NextVideo]_vars

\* ------------------------------------------------------------ FitnessChat

\* What the user types into the message field.
ChatInputs == {<<>>, <<" ">>, <<"How many sets?">>}

\* chunk.text of a chunk of the response stream; `modelResponse += chunk.text`
\* appends "undefined" for a chunk without text.
ChunkTexts == {<<>>, <<"Three sets. ">>, <<"undefined">>}

\* The message of what getChatResponseStream or the stream throws: the key
\* is not set, a failure of the SDK with its own text, an error without one.
ChatErrors == {KeyUnsetText, MsgServiceUnavailable, <<>>}

ChatFallbackText ==
    <<"Sorry, I couldn't connect to the AI coach. Please check your connection and try again.">>

Content(role, text) == [role |-> role, text |-> text]

\* The lowest free slot for a call of fetchModelResponse, in a session of at
\* most MaxChatClicks clicks.
FreeFetch(f) ==
    /\ chat.clicks < MaxChatClicks
    /\ chat.fetch[f] = NoFetch
    /\ \A j \in Fetches : j < f => chat.fetch[j] # NoFetch

ChatStep(c) == chat' = c /\ UNCHANGED <<invocation, gym, cache>>

\* fetchModelResponse(currentHistory) up to await getChatResponseStream.
fetchModelResponse(c, f, currentHistory) ==
    [c EXCEPT !.isLoading = TRUE, !.error = <<>>,
              !.fetch[f] = [NoFetch EXCEPT !.pc = "getChatResponseStream",
                                           !.currentHistory = currentHistory]]

\* catch (err) and finally of fetchModelResponse: the call ends.
fetchFailed(c, f, message) ==
    LET errorMessage == IF message # <<>> THEN message ELSE ChatFallbackText
        prev == c.history
        history == IF /\ prev # <<>>
                      /\ prev[Len(prev)].role = "model"
                      /\ prev[Len(prev)].text = <<>>
                   THEN SubSeq(prev, 1, Len(prev) - 1)
                   ELSE prev
    IN  [c EXCEPT !.error = errorMessage, !.history = history, !.isLoading = FALSE,
                  !.fetch[f] = NoFetch]

\* onChange of the message field, which is disabled while a response loads.
setUserInput ==
    /\ ~chat.isLoading
    /\ chat.clicks < MaxChatClicks
    /\ \E value \in ChatInputs : ChatStep([chat EXCEPT !.userInput = value])

\* The form is submitted, which its button allows with a message in the
\* field while no response loads: handleSendMessage up to the first await.
handleSendMessage(f) ==
    /\ FreeFetch(f)
    /\ ~chat.isLoading
    /\ trim(chat.userInput) # <<>>
    /\ LET c == [chat EXCEPT !.clicks = @ + 1]
       IN  IF trim(chat.userInput) = <<>> \/ chat.isLoading
           THEN ChatStep(c)
           ELSE LET newHistory == Append(chat.history, Content("user", chat.userInput))
                IN  ChatStep(fetchModelResponse([c EXCEPT !.history = newHistory,
                                                          !.userInput = <<>>],
                                                f, newHistory))

\* The button Try Again of the error panel.
handleRetry(f) ==
    /\ FreeFetch(f)
    /\ chat.error # <<>>
    /\ LET c == [chat EXCEPT !.clicks = @ + 1]
       IN  IF chat.history # <<>> /\ chat.history[Len(chat.history)].role = "user"
           THEN ChatStep(fetchModelResponse(c, f, chat.history))
           ELSE ChatStep(c)

\* getChatResponseStream resolves: the placeholder message is appended.
StreamOpens(f) ==
    /\ chat.fetch[f].pc = "getChatResponseStream"
    /\ ChatStep([chat EXCEPT !.history = Append(@, Content("model", <<>>)),
                              !.fetch[f].pc = "stream"])

\* getChatResponseStream throws or rejects.
StreamOpenFails(f) ==
    /\ chat.fetch[f].pc = "getChatResponseStream"
    /\ \E message \in ChatErrors : ChatStep(fetchFailed(chat, f, message))

\* for await (const chunk of stream): one chunk.
ChunkArrives(f) ==
    /\ chat.fetch[f].pc = "stream"
    /\ chat.fetch[f].chunks < MaxChunks
    /\ \E text \in ChunkTexts :
          LET modelResponse == chat.fetch[f].modelResponse \o text
          IN  ChatStep([chat EXCEPT
                           !.fetch[f].modelResponse = modelResponse,
                           !.fetch[f].chunks = @ + 1,
                           !.history = [@ EXCEPT ![Len(@)] = Content("model", modelResponse)]])

\* The stream is exhausted: finally.
StreamEnds(f) ==
    /\ chat.fetch[f].pc = "stream"
    /\ ChatStep([chat EXCEPT !.isLoading = FALSE, !.fetch[f] = NoFetch])

\* The stream throws.
StreamFails(f) ==
    /\ chat.fetch[f].pc = "stream"
    /\ \E message \in ChatErrors : ChatStep(fetchFailed(chat, f, message))

InitChat ==
    /\ invocation = [i \in Invocations |-> Idle]
    /\ gym = Mounted("GymAnalyzer.tsx", TRUE)
    /\ cache = InitialCache
    /\ chat = ChatMounted

NextChat ==
    \/ setUserInput
    \/ \E f \in Fetches : handleSendMessage(f)
    \/ \E f \in Fetches : handleRetry(f)
    \/ \E f \in Fetches : StreamOpens(f)
    \/ \E f \in Fetches : StreamOpenFails(f)
    \/ \E f \in Fetches : ChunkArrives(f)
    \/ \E f \in Fetches : StreamEnds(f)
    \/ \E f \in Fetches : StreamFails(f)

SpecChat == InitChat /\ [][NextChat]_vars

\* ---------------------------------------------------------------- properties

\* The markers of the retry policy, spelled out in every letter case the
\* failure messages use.
HasOverloadMarker(m) ==
    \E k \in 1..Len(m) :
        m[k] \in {"503", "overloaded", "Overloaded", "unavailable", "Unavailable", "UNAVAILABLE"}

HasKeyInvalidMarker(m) ==
    \E k \in 1..Len(m) : m[k] \in {"api key not valid", "API key not valid"}

HasEntityNotFoundText(m) ==
    \E k \in 1..Len(m) : m[k] = "Requested entity was not found."

\* The positions of the events of one type in a log, and the events in order.
Positions(log, type) == {k \in 1..Len(log) : log[k].type = type}

Events(log, type) == SelectSeq(log, LAMBDA e : e.type = type)

\* A retry of the failure at position k is under way or has happened: the
\* invocation sleeps in its backoff, or attempt n+1 was issued afterwards.
NextAttemptFollows(r, k) ==
    \/ r.pc = "backoff" /\ \A j \in (k + 1)..Len(r.log) : r.log[j].type \in {"notify", "sleep"}
    \/ \E j \in (k + 1)..Len(r.log) :
          r.log[j].type = "call" /\ r.log[j].attempt = r.log[k].attempt + 1

\* Nothing of the retry loop happens after position k.
NothingAfter(r, k) ==
    /\ r.pc # "backoff"
    /\ \A j \in (k + 1)..Len(r.log) : r.log[j].type \notin {"call", "notify", "sleep"}

\* The invocation has ended at position k of its log by throwing.
EndsAt(r, k) == k = Len(r.log) /\ r.pc = "thrown" /\ r.outcome.status = "thrown"

\* The fixed text of an exhausted operation, and the prefix of a propagated
\* failure, by operation.
FixedOverloadText(op) ==
    IF op = "generateExerciseVideo" THEN VideoOverloadedText ELSE OverloadedText

PrefixOf(op) ==
    CASE op = "analyzeVideoWithFrames" -> AnalysisPrefix
      [] op = "generateWorkoutPlan" -> PlanPrefix
      [] OTHER -> VideoStartPrefix

\* C1 as stated: a failed attempt n is followed by attempt n+1 if and only if
\* its message holds an overload marker and n < 3; otherwise no further attempt
\* is made.
C1_RetryIffOverload ==
    \A i \in Invocations :
        LET r == invocation[i]
        IN  \A k \in Positions(r.log, "fail") :
                /\ NextAttemptFollows(r, k)
                      <=> (HasOverloadMarker(r.log[k].msg) /\ r.log[k].attempt < 3)
                /\ ~NextAttemptFollows(r, k) => NothingAfter(r, k)

\* C1 amended: a failed attempt n is followed by attempt n+1 if and only if its
\* message holds an overload marker, n < 3 and, in analyzeVideoWithFrames, the
\* message does not hold the API-key-invalid marker; otherwise no further
\* attempt is made.
C1_RetryIffOverloadAndNotKey ==
    \A i \in Invocations :
        LET r == invocation[i]
        IN  \A k \in Positions(r.log, "fail") :
                /\ NextAttemptFollows(r, k)
                      <=> /\ HasOverloadMarker(r.log[k].msg)
                          /\ r.log[k].attempt < 3
                          /\ ~(r.op = "analyzeVideoWithFrames"
                                 /\ HasKeyInvalidMarker(r.log[k].msg))
                /\ ~NextAttemptFollows(r, k) => NothingAfter(r, k)

\* C1 witness: analyzeVideoWithFrames retried attempt 1 after an overload and
\* gave up at attempt 2 on a message with both the key and the 503 marker.
C1_Witness ==
    \E i \in Invocations :
        LET r == invocation[i]
        IN  /\ r.op = "analyzeVideoWithFrames"
            /\ r.pc = "thrown"
            /\ \E k \in Positions(r.log, "fail") :
                  r.log[k].attempt = 1 /\ NextAttemptFollows(r, k)
            /\ \E k \in Positions(r.log, "fail") :
                  /\ r.log[k].attempt = 2
                  /\ r.log[k].msg = MsgKeyInvalid503
                  /\ ~NextAttemptFollows(r, k)

\* C2: in every retrying operation a failure whose message holds the
\* API-key-invalid marker ends the invocation at that attempt and the error
\* thrown is an ApiKeyError.
C2_KeyInvalidEndsWithApiKeyError ==
    \A i \in Invocations :
        LET r == invocation[i]
        IN  \A k \in Positions(r.log, "fail") :
                HasKeyInvalidMarker(r.log[k].msg)
                    => EndsAt(r, k) /\ r.outcome.kind = "ApiKeyError"

\* C3: a failure that is neither a credential error nor a transient overload
\* ends the invocation with no further attempt, sleep or notification, and the
\* error thrown carries the operation's prefix followed by the original message.
C3_UnclassifiedPropagated ==
    \A i \in Invocations :
        LET r == invocation[i]
        IN  \A k \in Positions(r.log, "fail") :
                ( /\ ~HasOverloadMarker(r.log[k].msg)
                  /\ ~HasKeyInvalidMarker(r.log[k].msg)
                  /\ ~(r.op = "generateExerciseVideo" /\ HasEntityNotFoundText(r.log[k].msg)) )
                    => /\ EndsAt(r, k)
                       /\ r.outcome.kind = "Error"
                       /\ r.outcome.message = PrefixOf(r.op) \o r.log[k].msg
                       /\ Len(PrefixOf(r.op)) > 0

\* C3 witness: analyzeVideoWithFrames threw on a first failure whose message
\* has upper-case letters and no marker of the policy.
C3_Witness ==
    \E i \in Invocations :
        LET r == invocation[i]
        IN  /\ r.op = "analyzeVideoWithFrames"
            /\ r.pc = "thrown"
            /\ Positions(r.log, "fail") # {}
            /\ \A k \in Positions(r.log, "fail") :
                  r.log[k].attempt = 1 /\ r.log[k].msg = MsgEntity

\* All three attempts failed, each with a transient overload.
ThreeOverloads(r) ==
    /\ Cardinality(Positions(r.log, "fail")) = 3
    /\ \A k \in Positions(r.log, "fail") :
          /\ HasOverloadMarker(r.log[k].msg)
          /\ ~(r.op = "analyzeVideoWithFrames" /\ HasKeyInvalidMarker(r.log[k].msg))

\* The operation threw the fixed overload text after exactly 3 attempts and
\* the 2 backoff sleeps of 2 s and 4 s.
ExhaustedThrow(r) ==
    /\ r.pc = "thrown"
    /\ Len(Events(r.log, "call")) = 3
    /\ [k \in 1..Len(Events(r.log, "sleep")) |-> Events(r.log, "sleep")[k].arg] = <<2000, 4000>>
    /\ r.outcome.kind = "Error"
    /\ r.outcome.message = FixedOverloadText(r.op)

\* C4 as stated: when all 3 attempts fail with a transient overload the
\* operation throws the fixed overload text after 3 attempts and sleeps of 2 s
\* and 4 s, and the thrown message does not contain a raw backend message.
C4_ExhaustedIsGenericWithoutRaw ==
    \A i \in Invocations :
        LET r == invocation[i]
        IN  ThreeOverloads(r)
                => /\ ExhaustedThrow(r)
                   /\ \A k \in Positions(r.log, "fail") :
                         ~includes(r.outcome.message, r.log[k].msg)

\* C4 amended: as C4, but the thrown message contains a raw backend message
\* only when that message is itself a piece of the fixed text (the bare word
\* "overloaded").
C4_ExhaustedIsGeneric ==
    \A i \in Invocations :
        LET r == invocation[i]
        IN  ThreeOverloads(r)
                => /\ ExhaustedThrow(r)
                   /\ \A k \in Positions(r.log, "fail") :
                         includes(r.outcome.message, r.log[k].msg)
                             => r.log[k].msg = <<"overloaded">>

\* C4 witness: three overload failures with different raw messages, the bare
\* word "overloaded" among them, and the throw.
C4_Witness ==
    \E i \in Invocations :
        LET r == invocation[i]
        IN  /\ ThreeOverloads(r)
            /\ r.pc = "thrown"
            /\ \E k \in Positions(r.log, "fail") : r.log[k].msg = MsgBareOverloaded
            /\ \E k \in Positions(r.log, "fail") : r.log[k].msg = MsgServiceUnavailable

\* The notifications (attempt, 3) of attempts 1..n, in order.
NotificationsUpTo(n) == [k \in 1..n |-> Ev("notify", k, 3, <<>>)]

\* C5: when attempt N+1 succeeds after N transient failures (N in 0..2) the
\* operation returns the result of that attempt, makes no further attempt,
\* throws nothing (the start call of generateExerciseVideo goes on to the
\* polling phase with the started job) and the observer was invoked exactly N
\* times, with the attempts 1..N.
C5_SuccessAfterOverloads ==
    \A i \in Invocations :
        LET r == invocation[i]
        IN  \A k \in Positions(r.log, "ok") :
                LET n == r.log[k].attempt
                IN  /\ n \in 1..3
                    /\ Len(Events(r.log, "call")) = n
                    /\ Len(Events(r.log, "fail")) = n - 1
                    /\ Events(r.log, "notify")
                         = IF r.onProgress THEN NotificationsUpTo(n - 1) ELSE <<>>
                    /\ r.op = "analyzeVideoWithFrames"
                         => r.pc = "returned" /\ r.outcome.value = r.log[k].msg
                    /\ r.op = "generateWorkoutPlan"
                         => /\ r.pc = "returned"
                            /\ r.outcome.value
                                 = (CASE r.log[k].msg = <<"[]">> -> <<>>
                                      [] r.log[k].msg = <<"[{day:Day 1,exercises:[]}]">>
                                           -> <<[day |-> "Day 1", exercises |-> <<>>]>>
                                      [] r.log[k].msg = <<"[{day:Day 1,exercises:[{name:Lunge}]},{day:Day 2,exercises:[{name:lunge}]}]">>
                                           -> <<[day |-> "Day 1", exercises |-> << <<"Lunge">> >>],
                                                [day |-> "Day 2", exercises |-> << <<"lunge">> >>]>>
                                      [] OTHER
                                           -> <<[day |-> "Day 1",
                                                 exercises |-> << <<"plank">>, <<"Lunge">> >>]>>)
                    /\ r.op = "generateExerciseVideo"
                         => /\ r.operation.started
                            /\ ~r.lastError.isSet
                            /\ r.pc \in {"pollWait", "polling", "returned", "thrown"}
                            /\ r.pc = "thrown"
                                 => \/ Positions(r.log, "pollfail") # {}
                                    \/ r.outcome.message = VideoPollPrefix \o NoLinkText

\* C5 witness: generateWorkoutPlan returned the plan of attempt 3 after two
\* overloads, with an observer.
C5_Witness ==
    \E i \in Invocations :
        LET r == invocation[i]
        IN  /\ r.op = "generateWorkoutPlan"
            /\ r.onProgress
            /\ r.pc = "returned"
            /\ r.outcome.value = <<[day |-> "Day 1", exercises |-> <<>>]>>
            /\ Len(Events(r.log, "fail")) = 2

\* C6: the observer is invoked once for each scheduled retry, with (attempt
\* that failed, 3), after that failure and before the backoff sleep of that
\* retry starts, and at no other time.
C6_NotifyOncePerRetryBeforeSleep ==
    \A i \in Invocations :
        LET r == invocation[i]
        IN  /\ \A k \in Positions(r.log, "notify") :
                  /\ r.log[k].arg = 3
                  /\ k > 1 /\ r.log[k - 1].type = "fail"
                  /\ r.log[k - 1].attempt = r.log[k].attempt
                  /\ k < Len(r.log) /\ r.log[k + 1].type = "sleep"
                  /\ r.log[k + 1].attempt = r.log[k].attempt
            /\ r.onProgress
                  => \A k \in Positions(r.log, "sleep") :
                         /\ r.log[k - 1].type = "notify"
                         /\ r.log[k - 1].attempt = r.log[k].attempt
            /\ \A k \in Positions(r.log, "call") :
                  r.log[k].attempt > 1 => r.log[k - 1].type = "sleep"

\* C6 witness: an observed invocation was notified twice and issued attempt 3.
C6_Witness ==
    \E i \in Invocations :
        LET r == invocation[i]
        IN  /\ r.onProgress
            /\ Len(Events(r.log, "notify")) = 2
            /\ Len(Events(r.log, "call")) = 3

\* C7: after a transient overload at attempt 3 of 3 there is no sleep and no
\* notification: the invocation ends there with the exhausted-failure throw.
C7_NoRetryAfterLastAttempt ==
    \A i \in Invocations :
        LET r == invocation[i]
        IN  \A k \in Positions(r.log, "fail") :
                ( /\ r.log[k].attempt = 3
                  /\ HasOverloadMarker(r.log[k].msg)
                  /\ ~(r.op = "analyzeVideoWithFrames" /\ HasKeyInvalidMarker(r.log[k].msg)) )
                    => /\ EndsAt(r, k)
                       /\ r.outcome.kind = "Error"
                       /\ r.outcome.message = FixedOverloadText(r.op)

\* C7 witness: generateExerciseVideo threw after an overload at attempt 3.
C7_Witness ==
    \E i \in Invocations :
        LET r == invocation[i]
        IN  /\ r.op = "generateExerciseVideo"
            /\ r.pc = "thrown"
            /\ \E k \in Positions(r.log, "fail") :
                  r.log[k].attempt = 3 /\ HasOverloadMarker(r.log[k].msg)

\* C8: the backoff after failed attempt n is 2^n seconds, 2000 ms after
\* attempt 1 and 4000 ms after attempt 2, whatever the operation and the
\* failure; no other delay occurs in a retry loop.
C8_BackoffIsTwoToTheAttempt ==
    \A i \in Invocations :
        LET r == invocation[i]
        IN  \A k \in Positions(r.log, "sleep") :
                \/ r.log[k].attempt = 1 /\ r.log[k].arg = 2000
                \/ r.log[k].attempt = 2 /\ r.log[k].arg = 4000

\* C8 witness: an invocation slept 2000 ms and then 4000 ms.
C8_Witness ==
    \E i \in Invocations :
        LET sleeps == Events(invocation[i].log, "sleep")
        IN  Len(sleeps) = 2 /\ sleeps[1].arg = 2000 /\ sleeps[2].arg = 4000

\* C9: in generateExerciseVideo a start-call failure whose message holds the
\* entity-not-found text ends the invocation at that attempt, with no retry,
\* sleep or notification, and the error thrown is an ApiKeyError.
C9_EntityNotFoundIsCredential ==
    \A i \in Invocations :
        LET r == invocation[i]
        IN  r.op = "generateExerciseVideo"
                => \A k \in Positions(r.log, "fail") :
                       HasEntityNotFoundText(r.log[k].msg)
                           => EndsAt(r, k) /\ r.outcome.kind = "ApiKeyError"

\* C10: the first polling error ends the invocation with no retry of the
\* poll; the error thrown is an ApiKeyError when the failure is an Error whose
\* message holds the entity-not-found text, and a plain Error for any other
\* failure, one with a transient-overload marker included.
C10_PollErrorEndsInvocation ==
    \A i \in Invocations :
        LET r == invocation[i]
        IN  \A k \in Positions(r.log, "pollfail") :
                /\ EndsAt(r, k)
                /\ Cardinality(Positions(r.log, "pollfail")) = 1
                /\ r.outcome.kind
                     = IF r.log[k].arg = 1 /\ HasEntityNotFoundText(r.log[k].msg)
                       THEN "ApiKeyError" ELSE "Error"

\* C10 witness: the first poll failed with a 503 message and the invocation
\* threw a plain Error with no second poll.
C10_Witness ==
    \E i \in Invocations :
        LET r == invocation[i]
        IN  /\ r.pc = "thrown"
            /\ r.outcome.kind = "Error"
            /\ Len(Events(r.log, "poll")) = 1
            /\ \E k \in Positions(r.log, "pollfail") :
                  r.log[k].arg = 1 /\ r.log[k].msg = MsgServiceUnavailable

\* C11: the polling phase starts only after a start call has succeeded; every
\* status poll directly follows a wait of 10 seconds; a poll that reports "not
\* done" is followed by another wait, however many polls there were; the
\* ceiling of 3 bounds the start calls only, which all precede the polling.
C11_PollingAfterStartEveryTenSeconds ==
    \A i \in Invocations :
        LET r == invocation[i]
        IN  /\ \A k \in Positions(r.log, "wait") \cup Positions(r.log, "poll") :
                  /\ r.op = "generateExerciseVideo"
                  /\ \E j \in 1..(k - 1) : r.log[j].type = "ok"
                  /\ \A j \in (k + 1)..Len(r.log) : r.log[j].type \notin {"call", "sleep", "notify"}
            /\ \A k \in Positions(r.log, "poll") :
                  /\ r.log[k - 1].type = "wait"
                  /\ r.log[k - 1].arg = 10000
            /\ \A k \in Positions(r.log, "pollok") :
                  r.log[k].arg = 0
                      => k < Len(r.log) /\ r.log[k + 1].type = "wait"
            /\ r.pc \in {"pollWait", "polling"} => ~r.operation.done
            /\ Len(Events(r.log, "call")) <= 3

\* C11 witness: after a start call that succeeded at attempt 3, a fourth poll
\* is issued: the polls outnumber the ceiling of the start calls.
C11_Witness ==
    \E i \in Invocations :
        LET r == invocation[i]
        IN  /\ r.pc = "polling"
            /\ Len(Events(r.log, "call")) = 3
            /\ Len(Events(r.log, "poll")) = 4

\* The invocation is in a terminal state of the retry loop: Succeeded (the
\* start call of generateExerciseVideo: the polling phase), FailedImmediate or
\* FailedExhausted.
RetryLoopEnded(r) == r.pc \in {"returned", "thrown", "pollWait", "polling"}

\* C12, in every state: from the first attempt on the attempt number is in
\* 1..3 and is the number of attempts made; the attempts are numbered 1, 2, 3
\* in order, and attempt n+1 is issued only after a sleep that follows a
\* transient-overload failure of attempt n < 3.
C12_AttemptInRange ==
    \A i \in Invocations :
        LET r == invocation[i]
            calls == Events(r.log, "call")
        IN  /\ Len(calls) <= 3
            /\ \A j \in 1..Len(calls) : calls[j].attempt = j
            /\ calls # <<>> => r.attempt \in 1..3 /\ r.attempt = Len(calls)
            /\ \A k \in Positions(r.log, "call") :
                  r.log[k].attempt > 1
                      => /\ r.log[k - 1].type = "sleep"
                         /\ \E j \in 1..(k - 1) :
                               /\ r.log[j].type = "fail"
                               /\ r.log[j].attempt = r.log[k].attempt - 1
                               /\ r.log[j].attempt < 3
                               /\ HasOverloadMarker(r.log[j].msg)

\* C12, in every step: the attempt number changes only from "no attempt yet"
\* to 1 and by an increase of exactly 1, and once the retry loop has ended no
\* attempt, sleep or notification is added and the attempt number stays.
C12_AttemptStep ==
    \A i \in Invocations :
        LET r == invocation[i]
            q == invocation'[i]
        IN  /\ q.attempt # r.attempt
                  => \/ r.pc = "idle" /\ q.attempt = 1
                     \/ r.pc = "backoff" /\ q.attempt = r.attempt + 1
            /\ RetryLoopEnded(r)
                  => /\ q.attempt = r.attempt
                     /\ RetryLoopEnded(q)
                     /\ \A t \in {"call", "sleep", "notify"} :
                           Events(q.log, t) = Events(r.log, t)
            /\ r.pc \in {"returned", "thrown"} => q = r

\* C12: the attempt number of an invocation is in 1..3, starts at 1, grows
\* by 1 only after a transient-overload failure with attempt < 3, at most 3
\* attempts are made, and nothing of the retry loop happens after a terminal
\* state.
C12_AttemptCounter == []C12_AttemptInRange /\ [][C12_AttemptStep]_vars

\* C12 witness: a third attempt is in flight.
C12_Witness ==
    \E i \in Invocations :
        invocation[i].pc = "attempting" /\ invocation[i].attempt = 3

\* C13: under FairSpec (every request is answered, every backoff sleep ends)
\* an invocation whose retry loop is running, a request in flight or a
\* backoff sleep pending, eventually reaches a terminal state of that loop,
\* whatever the answers are.
C13_RetryLoopTerminates ==
    \A i \in Invocations :
        (invocation[i].pc \in {"attempting", "backoff"})
            ~> RetryLoopEnded(invocation[i])

\* C13 witness: a retry loop ended only after three failed requests and two
\* sleeps.
C13_Witness ==
    \E i \in Invocations :
        LET r == invocation[i]
        IN  /\ RetryLoopEnded(r)
            /\ Len(Events(r.log, "fail")) = 3
            /\ Len(Events(r.log, "sleep")) = 2
            /\ Len(Events(r.log, "ok")) = 0

\* C14, in every state: an invocation has ended exactly when it has an
\* outcome, which is either a returned result or one thrown error with a
\* message; a result is returned only from a request that resolved; an
\* invocation whose last step is a failure that was not retried has thrown;
\* and an invocation that has not ended is waiting for a request or a timer
\* that can still resume it.
C14_EndedIffReturnedOrThrown ==
    \A i \in Invocations :
        LET r == invocation[i]
            last == r.log[Len(r.log)]
        IN  /\ r.pc = "returned" <=> r.outcome.status = "returned"
            /\ r.pc = "thrown" <=> r.outcome.status = "thrown"
            /\ r.outcome.status \in {"pending", "returned", "thrown"}
            /\ r.outcome.status = "thrown"
                  => r.outcome.kind \in {"Error", "ApiKeyError"} /\ r.outcome.message # <<>>
            /\ r.outcome.status = "returned"
                  => /\ r.outcome.kind = "none"
                     /\ r.log # <<>> /\ last.type \in {"ok", "pollok"}
            /\ r.log # <<>> /\ last.type \in {"fail", "pollfail"}
                  => r.outcome.status = "thrown"
            /\ r.pc \notin {"idle", "returned", "thrown"}
                  => /\ r.pc \in {"attempting", "backoff", "pollWait", "polling"}
                     /\ ENABLED (Next /\ invocation'[i] # r)

\* C14, in every step: an outcome, once there, is never replaced: one
\* invocation throws at most one error and never both returns and throws.
C14_OutcomeIsFinal ==
    \A i \in Invocations :
        invocation[i].outcome.status # "pending"
            => invocation'[i].outcome = invocation[i].outcome

\* C14: every invocation either returns a result or throws exactly one error
\* to its caller; no failure is swallowed and no invocation ends without
\* either.
C14_NoFailureSwallowed ==
    []C14_EndedIffReturnedOrThrown /\ [][C14_OutcomeIsFinal]_vars

\* C14 witness: a status poll rejected with a value that is no Error, and the
\* invocation threw the "unknown error" Error.
C14_Witness ==
    \E i \in Invocations :
        LET r == invocation[i]
        IN  /\ r.outcome.status = "thrown"
            /\ r.outcome.message = VideoUnknownText
            /\ \E k \in Positions(r.log, "pollfail") : r.log[k].arg = 0

\* C15: when the first attempt fails with a message holding the
\* API-key-invalid marker, the observer is never invoked in that invocation
\* and exactly one network attempt is made, also when the message holds a
\* transient-overload marker too.
C15_KeyInvalidFirstAttemptNoObserver ==
    \A i \in Invocations :
        LET r == invocation[i]
        IN  \A k \in Positions(r.log, "fail") :
                r.log[k].attempt = 1 /\ HasKeyInvalidMarker(r.log[k].msg)
                    => /\ Events(r.log, "notify") = <<>>
                       /\ Len(Events(r.log, "call")) = 1

\* The outbound requests issued so far, and the answers received so far.
Requests(log) == Cardinality(Positions(log, "call") \cup Positions(log, "poll"))

Answers(log) ==
    Cardinality(Positions(log, "ok") \cup Positions(log, "fail")
                    \cup Positions(log, "pollok") \cup Positions(log, "pollfail"))

InFlight(log) == Requests(log) - Answers(log)

\* C17, in every state: at most one request is unanswered, and one is
\* unanswered exactly while the invocation awaits it; every request but the
\* first directly follows a timer (backoff sleep or poll wait) that was started
\* when all earlier requests had been answered.
C17_AtMostOneInFlight ==
    \A i \in Invocations :
        LET r == invocation[i]
        IN  /\ InFlight(r.log) \in {0, 1}
            /\ InFlight(r.log) = 1 <=> r.pc \in {"attempting", "polling"}
            /\ \A k \in Positions(r.log, "call") \cup Positions(r.log, "poll") :
                  k > 1 => /\ r.log[k - 1].type \in {"sleep", "wait"}
                           /\ InFlight(SubSeq(r.log, 1, k - 1)) = 0

\* C17, in every step: a request is issued only by an invocation that has
\* no request in flight and is not yet started or is waiting for a timer, so
\* in a later step than the one that received the previous answer and started
\* the timer, and one request at a time.
C17_RequestAfterTimer ==
    \A i \in Invocations :
        LET r == invocation[i]
            q == invocation'[i]
        IN  Requests(q.log) # Requests(r.log)
                => /\ Requests(q.log) = Requests(r.log) + 1
                   /\ InFlight(r.log) = 0
                   /\ r.pc \in {"idle", "backoff", "pollWait"}
                   /\ q.log[Len(q.log)].type \in {"call", "poll"}

\* C17: within one invocation at most one outbound request is in flight;
\* attempt n+1, or the next poll, starts only after the previous request has
\* failed or returned and the sleep in between has ended.
C17_Sequential == []C17_AtMostOneInFlight /\ [][C17_RequestAfterTimer]_vars

\* C17 witness: a second status poll is in flight after two start attempts.
C17_Witness ==
    \E i \in Invocations :
        LET r == invocation[i]
        IN  /\ r.pc = "polling"
            /\ Len(Events(r.log, "call")) = 2
            /\ Len(Events(r.log, "poll")) = 2

\* A frame string with no base64 payload after the comma: no comma at all, or
\* nothing behind it.
LacksPayload(frame) == Len(frame) < 2 \/ frame[2] = ""

\* C18: an invocation of analyzeVideoWithFrames with no API key, or with a
\* frame that has no payload after the comma, whatever the other frames are,
\* has thrown an Error without any network call, notification or sleep.
C18_ValidationBeforeNetwork ==
    \A i \in Invocations :
        LET r == invocation[i]
        IN  /\ r.op = "analyzeVideoWithFrames"
            /\ \/ r.apiKey = ""
               \/ \E k \in 1..Len(r.frames) : LacksPayload(r.frames[k])
            => /\ r.pc = "thrown"
               /\ r.log = <<>>
               /\ r.outcome.kind = "Error"
               /\ r.outcome.message =
                      IF r.apiKey = "" THEN KeyUnsetText ELSE InvalidFrameText

\* C18 witness: a valid frame followed by one with an empty payload.
C18_Witness ==
    \E i \in Invocations :
        LET r == invocation[i]
        IN  /\ r.op = "analyzeVideoWithFrames"
            /\ r.apiKey # ""
            /\ r.frames = <<FrameOk, FrameEmptyPayload>>
            /\ r.pc = "thrown"

\* The position of the most recent failed attempt in a log (0: none).
LastFailure(log) ==
    IF Positions(log, "fail") = {}
    THEN 0
    ELSE CHOOSE k \in Positions(log, "fail") : \A j \in Positions(log, "fail") : j <= k

\* C19: when an attempt failed with a transient overload and a later attempt
\* of the same invocation fails with an unclassified error, the invocation
\* throws an Error whose message is the operation's prefix followed by the
\* message of that later failure, not the fixed overload text.
C19_LastFailureDecides ==
    \A i \in Invocations :
        LET r == invocation[i]
            k == LastFailure(r.log)
        IN  /\ k > 0
            /\ \E j \in 1..(k - 1) :
                  r.log[j].type = "fail" /\ HasOverloadMarker(r.log[j].msg)
            /\ ~HasOverloadMarker(r.log[k].msg)
            /\ ~HasKeyInvalidMarker(r.log[k].msg)
            /\ ~(r.op = "generateExerciseVideo" /\ HasEntityNotFoundText(r.log[k].msg))
            => /\ r.pc = "thrown"
               /\ r.outcome.kind = "Error"
               /\ r.outcome.message = PrefixOf(r.op) \o r.log[k].msg
               /\ r.outcome.message # FixedOverloadText(r.op)
               /\ r.lastError = Err(r.log[k].msg)

\* C19 witness: two overloads, then a third failure without any marker.
C19_Witness ==
    \E i \in Invocations :
        LET r == invocation[i]
        IN  /\ r.pc = "thrown"
            /\ LastFailure(r.log) > 0
            /\ Len(Events(r.log, "fail")) = 3
            /\ r.log[LastFailure(r.log)].msg = MsgMalformed
            /\ r.outcome.message = PrefixOf(r.op) \o MsgMalformed

\* The failed attempts of a log that the retry policy answers with a retry.
RetriedFailures(op, log) ==
    SelectSeq(log, LAMBDA e :
        /\ e.type = "fail"
        /\ HasOverloadMarker(e.msg)
        /\ e.attempt < 3
        /\ ~(op = "analyzeVideoWithFrames" /\ HasKeyInvalidMarker(e.msg)))

\* The attempt counter, the last error, the notifications and the outcome of
\* an invocation as its own log of requests and answers gives them.
OwnHistory(r) ==
    LET calls == Events(r.log, "call")
        fails == Events(r.log, "fail")
        retried == RetriedFailures(r.op, r.log)
    IN  /\ r.pc = "idle" => r = Idle
        /\ calls # <<>> => calls[1].attempt = 1
        /\ r.attempt = Len(calls)
        /\ calls # <<>>
              => Len(calls) = 1 + Len(retried) - (IF r.pc = "backoff" THEN 1 ELSE 0)
        /\ Len(Events(r.log, "notify")) = (IF r.onProgress THEN Len(retried) ELSE 0)
        /\ r.lastError.isSet
              => fails # <<>> /\ r.lastError = Err(fails[Len(fails)].msg)
        /\ fails # <<>> /\ Events(r.log, "ok") = <<>> => r.lastError.isSet
        /\ r.outcome.status = "thrown" /\ fails # <<>> /\ Events(r.log, "ok") = <<>>
              => r.outcome.message \in
                    { FixedOverloadText(r.op), KeyInvalidText, KeyNotFoundText,
                      PrefixOf(r.op) \o fails[Len(fails)].msg }
        /\ r.outcome.status = "returned" => r.log[Len(r.log)].type \in {"ok", "pollok"}

\* C16, in every state: what each of two invocations has counted, kept,
\* notified and thrown follows from its own requests and their answers; and
\* two invocations of the same operation with the same inputs and the same
\* log are in the same state.
C16_OwnHistoryOnly ==
    /\ \A i \in DOMAIN invocation : OwnHistory(invocation[i])
    /\ \A i, j \in DOMAIN invocation :
          LET r == invocation[i]
              q == invocation[j]
          IN  /\ r.op = q.op /\ r.log = q.log
              /\ r.apiKey = q.apiKey /\ r.frames = q.frames /\ r.onProgress = q.onProgress
              => r = q

\* C16, in every step: a step of one invocation leaves the other as it is.
C16_OtherUntouched ==
    \A i, j \in DOMAIN invocation :
        i # j /\ invocation'[i] # invocation[i] => invocation'[j] = invocation[j]

\* C16: invocations share no state: run one after the other or interleaved
\* at their suspension points, each starts at attempt 1 with no last error,
\* and its attempts, notifications and outcome depend on the answers to its
\* own requests only.
C16_InvocationsIndependent == []C16_OwnHistoryOnly /\ [][C16_OtherUntouched]_vars

\* C16 witness: one invocation has thrown after three failed attempts while
\* the other is at its first attempt, with no last error.
C16_Witness ==
    \E i, j \in DOMAIN invocation :
        /\ i # j
        /\ invocation[i].pc = "thrown" /\ invocation[i].attempt = 3
        /\ invocation[i].lastError.isSet
        /\ invocation[j].pc = "attempting" /\ invocation[j].attempt = 1
        /\ ~invocation[j].lastError.isSet

\* ------------------------------------------------------------------- C20

\* Slot h holds a guarded operation (analysis, refinement, exercise video)
\* whose call has thrown an ApiKeyError, and this step ends its handler.
EndsWithApiKeyError(h) ==
    /\ gym.handlers[h].pc = "guardedCall"
    /\ gym.handlers[h].kind \in {"handleAnalyzeClick", "handleRefineAnalysis",
                                 "handleGenerateVideoClick"}
    /\ invocation[h].pc = "thrown"
    /\ invocation[h].outcome.kind = "ApiKeyError"
    /\ gym'.handlers[h] = NoHandler

\* The key flag is false and the loading indicator of the operation is off.
KeyPromptedAndIdle(g, kind) ==
    /\ ~g.apiKeySelected
    /\ IF kind = "handleGenerateVideoClick"
       THEN g.isGeneratingVideo = <<>>
       ELSE ~g.loadingActive

C20_Step ==
    \A h \in Handlers :
        EndsWithApiKeyError(h) => KeyPromptedAndIdle(gym', gym.handlers[h].kind)

\* C20: in the Gym Analyzer, whenever a guarded operation (video analysis,
\* refinement, exercise-video generation) ends by throwing an ApiKeyError,
\* apiKeySelected is false once the handler has finished and the loading
\* indicator of that operation is cleared.  Violated by handleAnalyzeClick of
\* part_004, whose catch block has no test for an ApiKeyError.
C20_ApiKeyErrorClearsKeyFlag == [][C20_Step]_vars

\* ------------------------------------------------------------------- C22

\* Two names are the same after lower-casing and trimming both.
SameName(a, b) == trim(toLowerCase(a)) = trim(toLowerCase(b))

\* The places of the cache whose key is the name in that sense.
Matches(db, name) == {k \in 1..Len(db) : SameName(db[k].key, name)}

\* C22: getCachedVideo looks a name up without regard to letter case: it
\* returns the URL stored under a key that equals the name after lower-casing
\* and trimming both, and null exactly when no key matches in that way.
C22_CaseInsensitiveLookup ==
    \A name \in CacheNames :
        LET db == cache.videoDatabase
            found == getCachedVideo(db, name)
        IN  IF Matches(db, name) = {}
            THEN found = Null
            ELSE found # Null /\ \E k \in Matches(db, name) : found = db[k].url

\* An entry written under "Lunge" is found under " LUNGE " and under "lunge",
\* and "Row" is not in the cache.
C22_Witness ==
    /\ cache.writes # <<>>
    /\ cache.writes[1].name = <<"Lunge">>
    /\ cache.writes[1].url = <<"blob:u1">>
    /\ getCachedVideo(cache.videoDatabase, <<" ", "LUNGE", " ">>) = <<"blob:u1">>
    /\ getCachedVideo(cache.videoDatabase, <<"lunge">>) = <<"blob:u1">>
    /\ getCachedVideo(cache.videoDatabase, <<"Row">>) = Null

\* ------------------------------------------------------------------- C23

\* The last two calls of cacheVideo were made with one name.
TwoWritesOfOneName ==
    /\ Len(cache.writes) >= 2
    /\ cache.writes[Len(cache.writes) - 1].name = cache.writes[Len(cache.writes)].name

\* C23 as it is stated: the cache is last-write-wins, after
\* cacheVideo(name, u1) then cacheVideo(name, u2) a lookup of the name
\* returns u2.
C23_LastWriteWins ==
    TwoWritesOfOneName =>
        getCachedVideo(cache.videoDatabase, cache.writes[Len(cache.writes)].name)
            = cache.writes[Len(cache.writes)].url

\* C23, amended: the cache keeps the first write.  After cacheVideo(name, u1)
\* then cacheVideo(name, u2), a lookup of the name returns the URL the cache
\* held for the name before the two calls when that URL is not empty; for a
\* name that no key matched before, it returns u1 when u1 is not empty and
\* u2 when u1 is the empty string.
C23_FirstWriteKept ==
    TwoWritesOfOneName =>
        LET first == cache.writes[Len(cache.writes) - 1]
            second == cache.writes[Len(cache.writes)]
            found == getCachedVideo(cache.videoDatabase, second.name)
        IN  /\ (first.found # Null /\ first.found # <<>>) => found = first.found
            /\ first.found = Null =>
                  found = IF first.url # <<>> THEN first.url ELSE second.url

\* "Lunge" is written twice with two URLs and is found with the first one.
C23_Witness ==
    /\ Len(cache.writes) = 2
    /\ cache.writes[1] = [name |-> <<"Lunge">>, url |-> <<"blob:u1">>, found |-> Null]
    /\ cache.writes[2].name = <<"Lunge">>
    /\ cache.writes[2].url = <<"blob:u2">>
    /\ getCachedVideo(cache.videoDatabase, <<"Lunge">>) = <<"blob:u1">>

\* ------------------------------------------------------------------- C24

\* The step is a call cacheVideo(name2, url).
IsCacheVideo(name2) ==
    /\ Len(cache'.writes) = Len(cache.writes) + 1
    /\ cache'.writes[Len(cache'.writes)].name = name2

C24_Step ==
    \A name \in CacheNames, name2 \in CacheNames :
        LET db == cache.videoDatabase
            db2 == cache'.videoDatabase
        IN  (/\ IsCacheVideo(name2)
             /\ SameName(name, name2)
             /\ getCachedVideo(db, name) # Null)
            => /\ getCachedVideo(db2, name) = getCachedVideo(db, name)
               /\ Len(db2) >= Len(db)
               /\ \A k \in 1..Len(db) : db2[k] = db[k]

\* C24: cacheVideo never overwrites an existing entry with the same name
\* compared without regard to letter case: when getCachedVideo(name) returns
\* a URL before cacheVideo(name2, url) is called with name2 equal to name but
\* for case and surrounding white space, getCachedVideo(name) returns the
\* same URL afterwards and every other entry is unchanged.  Violated where
\* the URL that is returned before the call is the empty string.
C24_NeverOverwrites == [][C24_Step]_vars

\* ------------------------------------------------------------------- C26

\* No two keys of the cache are the same name.
NoTwoKeysOfOneName ==
    \A j, k \in 1..Len(cache.videoDatabase) :
        SameName(cache.videoDatabase[j].key, cache.videoDatabase[k].key) => j = k

\* The four entries the module starts with are in the cache as they were.
PrepopulatedKept ==
    \A k \in 1..Len(videoDatabase) :
        \E j \in 1..Len(cache.videoDatabase) : cache.videoDatabase[j] = videoDatabase[k]

\* C26: after any sequence of cacheVideo calls with arbitrary names and URLs
\* (the empty URL included) the cache never holds two keys that are equal
\* after lower-casing and trimming, and the four pre-populated entries are
\* never removed or changed.  Violated by a call with the empty URL followed
\* by a call with the same name in another letter case.
C26_KeysUniqueAndPrepopulatedKept == NoTwoKeysOfOneName /\ PrepopulatedKept

\* ------------------------------------------------------------------- C21

\* Try Again is on display.
TryAgainOffered(g) == g.error # <<>> /\ g.lastFailedAction # NoAction

\* This step ends the analysis or the plan generation of slot h, whose
\* guarded call has thrown an error that is not an ApiKeyError.
FailsWithoutApiKeyError(h) ==
    /\ gym.handlers[h].pc = "guardedCall"
    /\ gym.handlers[h].kind \in {"handleAnalyzeClick", "generatePlan"}
    /\ invocation[h].pc = "thrown"
    /\ invocation[h].outcome.kind # "ApiKeyError"
    /\ gym'.handlers[h] = NoHandler

\* This step is a click on Try Again that calls a handler in slot h.
TryAgainClicked(h) == gym.handlers[h] = NoHandler /\ gym'.handlers[h].retried

\* The requests a call has made so far.
RequestsMade(r) == Len(SelectSeq(r.log, LAMBDA e : e.type = "call"))

C21_Step ==
    \A h \in Handlers :
        /\ FailsWithoutApiKeyError(h) =>
              /\ TryAgainOffered(gym')
              /\ gym'.lastFailedAction.kind = gym.handlers[h].kind
        /\ TryAgainClicked(h) =>
              /\ TryAgainOffered(gym)
              /\ gym'.error = <<>>
              /\ gym'.handlers[h].kind = gym.lastFailedAction.kind
              /\ gym'.handlers[h].isRegeneration = gym.lastFailedAction.isRegeneration
        /\ (gym.handlers[h].retried /\ invocation[h].pc = "idle" /\ invocation'[h].pc # "idle") =>
              /\ invocation'[h].attempt = 1
              /\ RequestsMade(invocation'[h]) = 1

\* A call made after Try Again counts its requests from 1, and gives up on
\* an overload only after MAX_RETRIES requests.
C21_FullBudget ==
    \A h \in Handlers :
        (gym.handlers[h].retried /\ gym.handlers[h].pc = "guardedCall") =>
            LET r == invocation[h]
            IN  /\ r.attempt \in 1..MAX_RETRIES
                /\ RequestsMade(r) = r.attempt
                /\ (/\ r.pc = "thrown"
                     /\ LastFailure(r.log) # 0
                     /\ r.log[LastFailure(r.log)].msg = MsgServiceUnavailable)
                   => RequestsMade(r) = MAX_RETRIES

\* C21: after a video analysis or a workout-plan generation has failed in the
\* Gym Analyzer with an error that is not a credential error, Try Again is
\* offered; a click on it clears the error on display and calls the same
\* operation again, whose guarded call starts at attempt 1 with the whole
\* budget of 3 attempts.
C21_TryAgain == []C21_FullBudget /\ [][C21_Step]_vars

\* A plan generation called by Try Again, after the first one gave up on
\* overloads, is at its third request.
C21_Witness ==
    \E h \in Handlers :
        /\ gym.handlers[h].retried
        /\ gym.handlers[h].kind = "generatePlan"
        /\ gym.handlers[h].pc = "guardedCall"
        /\ invocation[h].attempt = 3
        /\ invocation[h].pc = "attempting"

\* ------------------------------------------------------------------- C25

\* The URL the cache holds for a name in any letter case: that of the first
\* key that is the same name, null if there is none.
Held(db, name) ==
    IF Matches(db, name) = {}
    THEN Null
    ELSE db[CHOOSE k \in Matches(db, name) : \A j \in Matches(db, name) : k <= j].url

\* The handler of slot h is a video request of the cache-backed component.
CacheBacked(h) ==
    gym.copy = "part_004" /\ gym.handlers[h].kind = "handleGenerateVideoClick"

\* This step starts generateExerciseVideo in slot h.
GenerationStarts(h) ==
    /\ gym.copy = "part_004"
    /\ invocation[h].pc = "idle"
    /\ invocation'[h].pc # "idle"
    /\ invocation'[h].op = "generateExerciseVideo"

\* This step ends the video request of slot h whose generation has settled.
GenerationEnds(h, pc) ==
    /\ CacheBacked(h)
    /\ gym.handlers[h].pc = "guardedCall"
    /\ invocation[h].pc = pc
    /\ gym'.handlers[h] = NoHandler

\* A generation starts only on a miss.
C25_OnlyOnMiss ==
    \A h \in Handlers :
        GenerationStarts(h) => ~Truthy(Held(cache.videoDatabase, gym'.handlers[h].exercise))

\* The URL of a generation that succeeded is what the cache holds for the name.
C25_SuccessWritten ==
    \A h \in Handlers :
        GenerationEnds(h, "returned") =>
            Held(cache'.videoDatabase, gym.handlers[h].exercise) = invocation[h].outcome.value

\* A generation that failed leaves the cache as it is.
C25_FailureNotWritten ==
    \A h \in Handlers : GenerationEnds(h, "thrown") => cache' = cache

\* A video that is shown without a generation having returned it is the one
\* the cache holds, and no request is made.
C25_ServedFromCache ==
    gym.copy = "part_004" =>
        \A p \in gym'.generatedVideos \ gym.generatedVideos :
            \/ \E h \in Handlers : /\ GenerationEnds(h, "returned")
                                    /\ p = <<gym.handlers[h].exercise, invocation[h].outcome.value>>
            \/ /\ p[2] = Held(cache.videoDatabase, p[1])
               /\ invocation' = invocation
               /\ cache' = cache

C25_Step ==
    /\ C25_OnlyOnMiss
    /\ C25_SuccessWritten
    /\ C25_FailureNotWritten
    /\ C25_ServedFromCache

\* C25: in the cache-backed handleGenerateVideoClick, generateExerciseVideo
\* is called only when the lookup of the exercise name misses; after a
\* generation has succeeded its URL is in the cache, so that a later request
\* for the name in any letter case is served from the cache without a
\* generation; after a generation has failed nothing is written.
C25_CacheBackedGeneration == [][C25_Step]_vars

\* ------------------------------------------------------------------- C28

\* The calls of generateExerciseVideo that have not settled in their handler.
GenerationsInFlight ==
    {h \in Handlers : invocation[h].pc # "idle" /\ invocation[h].op = "generateExerciseVideo"}

\* The video request of slot j is suspended before its setIsGeneratingVideo.
SuspendedBeforeGeneration(j) ==
    /\ gym.handlers[j].kind = "handleGenerateVideoClick"
    /\ gym.handlers[j].pc \in {"dbGet", "hasSelectedApiKey", "openSelectKey"}

\* This step starts generateExerciseVideo in slot h.
VideoCallStarts(h) ==
    /\ invocation[h].pc = "idle"
    /\ invocation'[h].pc # "idle"
    /\ invocation'[h].op = "generateExerciseVideo"

C28_AtMostOne == Cardinality(GenerationsInFlight) <= 1

C28_Step ==
    \A h \in Handlers :
        VideoCallStarts(h) =>
            /\ gym.isGeneratingVideo = <<>>
            /\ \A j \in Handlers \ {h} : ~SuspendedBeforeGeneration(j)

\* C28: in the Gym Analyzer at most one generation of an exercise video is
\* in flight at any time: generateExerciseVideo is never started while
\* isGeneratingVideo is non-null, nor while another handleGenerateVideoClick
\* is suspended between its cache or key check and its own
\* setIsGeneratingVideo.
C28_OneGenerationInFlight == []C28_AtMostOne /\ [][C28_Step]_vars

\* ------------------------------------------------------------------- C27

\* The handler of slot h is an analysis that acts in this step.
AnalysisActs(h) ==
    /\ gym.handlers[h].kind = "handleAnalyzeClick"
    /\ gym'.handlers[h] # gym.handlers[h]

\* The analysis of slot h was started for another video than the one that is
\* selected now: in a component that is no longer on the page, or for another
\* file.
OfEarlierVideo(h) ==
    gym.handlers[h].unmounted \/ gym.handlers[h].videoFile # gym.videoFile

\* An analysis text comes on display in this step.
AnalysisComesUp == gym'.analysis # <<>> /\ gym'.analysis # gym.analysis

C27_Step ==
    /\ \A h \in Handlers :
          (AnalysisActs(h) /\ OfEarlierVideo(h)) =>
              /\ gym'.analysis = gym.analysis
              /\ gym'.equipmentList = gym.equipmentList
              /\ gym'.error = gym.error
    /\ AnalysisComesUp =>
          \E h \in Handlers :
              /\ AnalysisActs(h)
              /\ gym'.handlers[h] = NoHandler
              /\ ~gym.handlers[h].unmounted
              /\ gym.handlers[h].videoFile = gym'.videoFile

\* C27: an analysis on display was computed from the selected video: when
\* another video is selected while the analysis of an earlier one is under
\* way, the end of that analysis sets neither the analysis nor the equipment
\* list nor the error on display.
C27_NoStaleAnalysis == [][C27_Step]_vars

\* A recorded video is selected, and the analysis of the video selected
\* before has ended since without a trace on the page.
C27_Witness ==
    /\ gym.videoFile = RecordedVideo.name
    /\ gym.ignoredUpdate
    /\ \A h \in Handlers : gym.handlers[h] = NoHandler
    /\ gym.analysis = <<>>
    /\ gym.error = <<>>

\* ------------------------------------------------------------------- C29

\* The handler of slot h has turned loadingState.active on.
LoadingTurnedOn(h) ==
    gym.handlers[h].kind \in {"handleAnalyzeClick", "handleRefineAnalysis", "generatePlan"}

\* The handler of slot h has called setIsGeneratingVideo(exercise.name).
GeneratingTurnedOn(h) ==
    /\ gym.handlers[h].kind = "handleGenerateVideoClick"
    /\ gym.handlers[h].pc \in {"guardedCall", "dbSet"}

\* C29: a handler of the Gym Analyzer that has turned a loading indicator on
\* (handleAnalyzeClick, handleRefineAnalysis and generatePlan
\* loadingState.active, handleGenerateVideoClick isGeneratingVideo) turns it
\* off again in the end, when its call has returned, when anything has
\* thrown, and when a stored plan was found.
C29_IndicatorsTurnedOff ==
    \A h \in Handlers :
        /\ (LoadingTurnedOn(h) /\ gym.loadingActive)
              ~> (gym.handlers[h] = NoHandler /\ ~gym.loadingActive)
        /\ (GeneratingTurnedOn(h) /\ gym.isGeneratingVideo # <<>>)
              ~> (gym.handlers[h] = NoHandler /\ gym.isGeneratingVideo = <<>>)

\* A stored plan was found and is on display, and the indicator is off.
C29_Witness ==
    /\ gym.workoutPlan.isSet
    /\ gym.workoutPlan.days \in StoredPlans
    /\ ~gym.loadingActive
    /\ \A h \in Handlers : gym.handlers[h] = NoHandler

\* ------------------------------------------------------------------- C30

\* The calls of fetchModelResponse under way.
FetchesUnderWay == {f \in Fetches : chat.fetch[f] # NoFetch}

\* This step ends the call of slot f with a failure.
ResponseFails(f) ==
    /\ chat.fetch[f] # NoFetch
    /\ chat'.fetch[f] = NoFetch
    /\ chat'.error # <<>>

\* This step is a click on Try Again: an error is on display, and a click is
\* made that sends no new message.
TryAgainInChat ==
    /\ chat.error # <<>>
    /\ chat'.clicks = chat.clicks + 1
    /\ chat'.history = chat.history

\* No second stream while a response loads.
C30_OneStream ==
    /\ Cardinality(FetchesUnderWay) <= 1
    /\ chat.isLoading <=> FetchesUnderWay # {}
    /\ chat.isLoading => chat.error = <<>>

\* After a failure the history is the one that was sent, which ends with the
\* message of the user.
C30_PlaceholderRemoved ==
    \A f \in Fetches :
        ResponseFails(f) =>
            /\ chat'.history = chat.fetch[f].currentHistory
            /\ chat'.history # <<>>
            /\ chat'.history[Len(chat'.history)].role = "user"

\* Try Again sends the history again.
C30_TryAgainResends ==
    TryAgainInChat =>
        \E f \in Fetches :
            /\ chat'.fetch[f].pc = "getChatResponseStream"
            /\ chat'.fetch[f].currentHistory = chat.history

\* C30: in FitnessChat, after any failed model response (the call of the
\* stream throws, or the stream fails before or after it has delivered
\* chunks) the placeholder message of the model is removed, so that the
\* history ends with the message of the user and Try Again sends that
\* history again; and no second response stream is started while one loads.
C30_FailedResponse ==
    []C30_OneStream /\ [][C30_PlaceholderRemoved /\ C30_TryAgainResends]_vars

====
